---------------------------- MODULE Spec2Model ----------------------------
(***************************************************************************)
(* Model of the trading_assistant qualification pipeline.                  *)
(*                                                                         *)
(*   Part A  agent fabric: OrchestratorAgent.run_backtest and the          *)
(*           SchedulerAgent state machine (start / run_cycle / stop /      *)
(*           reset_daily_memory).   specifications OrchSpec, SchedSpec  *)
(*   Part B  exchange simulator: new_order / modify_order / cancel_order / *)
(*           _on_candle_update / _complete_order. specification ExchSpec   *)
(*                                                                         *)
(* Times are wall-clock milliseconds as in the source.  TLC integers are   *)
(* 32 bit, so the clock origin is shifted (Now0) and percentages are taken *)
(* as (x \div 100) * p, which is exact for the day-multiple durations used.*)
(***************************************************************************)
EXTENDS Integers, Sequences, FiniteSets, TLC

VARIABLES
    \* ---- OrchestratorAgent (orchestrator_agent.py:32-51)
    active_backtests,        \* keys of the dict active_backtests
    completed_backtests,     \* keys of the dict completed_backtests
    orch_call,               \* outcome of the latest run_backtest call
    \* ---- SchedulerAgent (scheduler_agent.py:25-54)
    config,                  \* SchedulerConfig snapshot
    orchestrator,            \* "own": created by initialize(); "injected": attribute replaced by the caller
    running,
    cycle_count,
    executions_today,
    last_reset_date,         \* UTC day number, or NoDay
    episodic_memory,         \* keys of BaseAgent.episodic_memory
    current_period_index,
    backtest_count_in_period,
    passed_backtests_in_period,
    period_parameter_combinations,   \* period index -> list of ranges of the (single) parameter key
    events,                  \* number of promote_to_production events logged
    now,                     \* wall clock, ms
    loop_pc,                 \* position of start()'s loop
    cycle_pc,                \* position inside run_cycle
    cycle,                   \* locals of the run_cycle in progress / of the latest one
    \* ---- Exchange (exchange.py:16-28)
    xch,
    \* ---- MarketDataSimulator (simulator.py:45-59)
    sim,
    \* ---- EvaluatorAgent.evaluate: the latest call, its input and its result
    evaluator,
    \* ---- OptimizerAgent.optimize: the latest call, its input and its result
    optimizer,
    \* ---- the two EventDispatcher classes: listeners per event kind, latest dispatch
    dispatcher,
    \* ---- ResultsRepository (results_repository.py:17-41): payload files and index.json
    registry,
    \* ---- OrchestratorAgent's child agents: creation and close order
    children,
    \* ---- logging context (context.py:8-10): the three context variables
    context,
    \* ---- CargaDescargaStrategy's cycle tracking (carga_descarga_strategy.py:142-146)
    strategy,
    \* ---- MarketDataSimulator with several symbols configured
    multi

agentVars == <<active_backtests, completed_backtests, orch_call, config, orchestrator,
               running, cycle_count, executions_today, last_reset_date, episodic_memory,
               current_period_index, backtest_count_in_period, passed_backtests_in_period,
               period_parameter_combinations, events, now, loop_pc, cycle_pc, cycle>>

serviceVars == <<sim, evaluator, optimizer, dispatcher>>

moduleVars == <<registry, children, context, strategy, multi>>

vars == <<agentVars, xch, serviceVars, moduleVars>>

---------------------------------------------------------------------------
(* Bounds *)

MaxCycles == 4              \* run_cycle calls explored
MaxBacktestsPerPeriod == 2  \* largest backtests_per_period explored
MaxDirectCalls == 6         \* run_backtest calls made directly on an orchestrator

---------------------------------------------------------------------------
(* Part A: constants of the source *)

ONE_MINUTE_MS == 60000
DAY_MS == 24 * 3600 * 1000
MAX_CONCURRENT_BACKTESTS == 1
NoDay == -1

\* 20 days minus two minutes: the UTC day changes after a couple of cycles.
Now0 == 20 * DAY_MS - 2 * ONE_MINUTE_MS

OrchRunId == "sched_run"
\* run ids a StartBacktestRequest may carry
RunIds == {OrchRunId, "different_run_id", "sched_run_cycle"}
\* the id run_cycle builds: f"{self.run_id}_cycle_{n}_{t}", one per cycle and
\* never the orchestrator's own
CycleRunId(n) == "sched_run_cycle_" \o ToString(n)

\* what BacktestAgent.execute_backtest / the simulator set-up can do
BacktestOutcomes == {"ok", "simulator_raises", "backtest_raises"}

\* EvaluatorAgent.evaluate: passed <=> promote; a failed one is optimize or reject
Evaluations == { [passed |-> TRUE,  recommendation |-> "promote"],
                 [passed |-> FALSE, recommendation |-> "optimize"],
                 [passed |-> FALSE, recommendation |-> "reject"] }

NoEvaluation == [passed |-> FALSE, recommendation |-> "none"]

Configs ==
    [ incremental_periods : {<<1, 7>>},
      backtests_per_period : 1..MaxBacktestsPerPeriod,
      min_passed_backtests_per_period : 1..2,
      max_overlap_percentage : {20},
      max_iterations_per_cycle : {2},
      schedule_interval_seconds : {60},
      auto_reset_memory : BOOLEAN ]

\* an empty dict
EmptyMap == [p \in {} |-> <<>>]

Max(a, b) == IF a >= b THEN a ELSE b
Min(a, b) == IF a <= b THEN a ELSE b

---------------------------------------------------------------------------
(* OrchestratorAgent.run_backtest *)

\* The whole call, as a function of the dict keys before it, the run_id the
\* request carries and what the simulator/backtest do.  Result: the keys
\* after the call and how the call ended.
RunBacktest(active, completed, reqId, outcome) ==
    IF Cardinality(active) >= MAX_CONCURRENT_BACKTESTS
    THEN \* policy error; the handler still deletes the entry keyed request.run_id
         [active |-> active \ {reqId}, completed |-> completed,
          result |-> "MAX_CONCURRENT_BACKTESTS", executed |-> FALSE]
    ELSE LET stored == active \cup {reqId} IN
         IF outcome = "simulator_raises"
         THEN \* raised before the run_id is rewritten: cleanup finds the key
              [active |-> stored \ {reqId}, completed |-> completed,
               result |-> "raised", executed |-> FALSE]
         ELSE LET normId == OrchRunId IN   \* request.run_id = self.run_id
              IF outcome = "backtest_raises"
              THEN [active |-> stored \ {normId}, completed |-> completed,
                    result |-> "raised", executed |-> FALSE]
              ELSE IF normId \in stored
                   THEN [active |-> stored \ {normId},
                         completed |-> completed \cup {normId},
                         result |-> "returned", executed |-> TRUE]
                   ELSE \* del active_backtests[request.run_id] -> KeyError; cleanup finds nothing
                        [active |-> stored, completed |-> completed,
                         result |-> "KeyError", executed |-> TRUE]

NoCall == [run_id |-> "none", result |-> "none", executed |-> FALSE, n |-> 0]

\* A caller other than the scheduler invokes run_backtest on the orchestrator.
OrchRunBacktest(reqId, outcome) ==
    /\ orchestrator = "own"
    /\ loop_pc = "idle"
    /\ cycle_pc = "idle"
    /\ orch_call.n < MaxDirectCalls
    /\ LET r == RunBacktest(active_backtests, completed_backtests, reqId, outcome) IN
         /\ active_backtests' = r.active
         /\ completed_backtests' = r.completed
         /\ orch_call' = [run_id |-> reqId, result |-> r.result,
                          executed |-> r.executed, n |-> orch_call.n + 1]
    /\ UNCHANGED <<config, orchestrator, running, cycle_count, executions_today,
                   last_reset_date, episodic_memory, current_period_index,
                   backtest_count_in_period, passed_backtests_in_period,
                   period_parameter_combinations, events, now, loop_pc, cycle_pc, cycle, xch,
                   sim, evaluator, optimizer, dispatcher,
                   moduleVars>>

---------------------------------------------------------------------------
(* SchedulerAgent *)

NumPeriods == Len(config.incremental_periods)

\* milliseconds the backtest itself takes (time.time() moves while it runs)
ExecMillis == {30000}

NoCycle == [start |-> 0, end |-> 0, period |-> 0, phase |-> "none",
            evaluation |-> NoEvaluation, optimize_attempted |-> FALSE]

\* period_ranges.get(param_key, []) for the current period.  run_cycle always
\* builds the key from the same default request, so there is one key.
PreviousRanges(ppc, idx) == IF idx \in DOMAIN ppc THEN ppc[idx] ELSE <<>>

\* max(previous_ranges, key=lambda x: int(x["end"])): the first one with the largest end
MostRecent(ranges) ==
    LET best == CHOOSE i \in 1..Len(ranges) :
                  /\ \A j \in 1..Len(ranges) : ranges[j].end <= ranges[i].end
                  /\ \A j \in 1..(i - 1) : ranges[j].end < ranges[i].end
    IN ranges[best]

\* int(duration_ms * (max_overlap_percentage / 100.0))
TargetOverlapDuration(duration_ms, pct) == (duration_ms \div 100) * pct

\* the same computation measured from the end of the most recent range
CalcRange_FromPrevEnd(previous_ranges, current_time_ms, duration_ms, pct) ==
    IF previous_ranges = <<>>
    THEN LET end_time == current_time_ms - ONE_MINUTE_MS
         IN [start |-> end_time - duration_ms, end |-> end_time]
    ELSE LET prev_end == MostRecent(previous_ranges).end
             calculated_end_time == prev_end + TargetOverlapDuration(duration_ms, pct)
             end_time == IF calculated_end_time >= current_time_ms
                         THEN current_time_ms - ONE_MINUTE_MS
                         ELSE calculated_end_time
         IN [start |-> end_time - duration_ms, end |-> end_time]

\* run_cycle's time-range computation (scheduler_agent.py:172-210)
CalcRange(previous_ranges, current_time_ms, duration_ms, pct) ==
    IF previous_ranges = <<>>
    THEN LET end_time == current_time_ms - ONE_MINUTE_MS
         IN [start |-> end_time - duration_ms, end |-> end_time]
    ELSE LET prev_start == MostRecent(previous_ranges).start
             calculated_end_time == prev_start + TargetOverlapDuration(duration_ms, pct)
             end_time == IF calculated_end_time >= current_time_ms
                         THEN current_time_ms - ONE_MINUTE_MS
                         ELSE calculated_end_time
         IN [start |-> end_time - duration_ms, end |-> end_time]

\* BacktestRunner._calculate_results: start_time is the configured start,
\* end_time is int(time.time() * 1000) taken when the run has finished.
ResultRange(request, finished_at, run_id) ==
    [start |-> request.start, end |-> finished_at, run_id |-> run_id]

\* list.append on period_parameter_combinations[idx][param_key]
StoreRange(ppc, idx, r) ==
    [p \in (DOMAIN ppc) \cup {idx} |->
        IF p = idx THEN Append(PreviousRanges(ppc, idx), r) ELSE ppc[p]]

\* _should_reset_daily
Today == now \div DAY_MS
ShouldResetDaily == last_reset_date = NoDay \/ Today > last_reset_date

\* reset_daily_memory: keeps "config", clears the rest of the episodic memory,
\* clears parameter_combinations (a dict run_cycle never fills), zeroes
\* executions_today and stamps last_reset_date.
ResetDailyMemoryEffect ==
    /\ episodic_memory' = episodic_memory \cap {"config"}
    /\ executions_today' = 0
    /\ last_reset_date' = Today

\* _calculate_overlap, as the comparison overlap% <= pct without the float:
\* overlap_duration / (end1 - start1) * 100 <= pct
OverlapDuration(r1, r2) ==
    LET overlap_start == Max(r1.start, r2.start)
        overlap_end == Min(r1.end, r2.end)
    IN IF overlap_start >= overlap_end THEN 0 ELSE overlap_end - overlap_start

OverlapWithin(r1, r2, pct) ==
    \/ r1.end - r1.start = 0
    \/ OverlapDuration(r1, r2) <= ((r1.end - r1.start) \div 100) * pct

\* ---- run_cycle, first part (lines 139-247): counters, time range, backtest, store range
BeginCycle(outcome, exec) ==
    /\ cycle_pc = "idle"
    /\ cycle_count < MaxCycles
    /\ cycle_count' = cycle_count + 1
    /\ executions_today' = executions_today + 1
    /\ LET duration_ms == config.incremental_periods[current_period_index + 1] * DAY_MS
           request == CalcRange(PreviousRanges(period_parameter_combinations, current_period_index),
                                now, duration_ms, config.max_overlap_percentage)
           r == RunBacktest(active_backtests, completed_backtests, CycleRunId(cycle_count'), outcome)
           returned == IF orchestrator = "own" THEN r.result = "returned" ELSE outcome = "ok"
           ran == IF orchestrator = "own" THEN r.executed ELSE outcome = "ok"
       IN /\ IF orchestrator = "own"
             THEN /\ active_backtests' = r.active
                  /\ completed_backtests' = r.completed
             ELSE UNCHANGED <<active_backtests, completed_backtests>>
          /\ now' = IF ran THEN now + exec ELSE now
          /\ IF returned
             THEN /\ period_parameter_combinations' =
                        StoreRange(period_parameter_combinations, current_period_index,
                                   ResultRange(request, now', cycle_count'))
                  /\ cycle_pc' = "evaluate"
                  /\ cycle' = [NoCycle EXCEPT !.start = request.start, !.end = request.end,
                                              !.period = current_period_index,
                                              !.phase = "backtest_done"]
             ELSE \* the exception leaves run_cycle
                  /\ UNCHANGED period_parameter_combinations
                  /\ cycle_pc' = "idle"
                  /\ cycle' = [NoCycle EXCEPT !.start = request.start, !.end = request.end,
                                              !.period = current_period_index,
                                              !.phase = "error"]
    /\ UNCHANGED <<orch_call, config, orchestrator, running, last_reset_date, episodic_memory,
                   current_period_index, backtest_count_in_period,
                   passed_backtests_in_period, events, xch,
                   sim, evaluator, optimizer, dispatcher,
                   moduleVars>>

\* _reset_to_first_period (lines 377-395)
ResetToFirstPeriod_KeepsRanges(ppc) ==
    [current_period_index |-> 0, backtest_count_in_period |-> 0,
     passed_backtests_in_period |-> 0, period_parameter_combinations |-> ppc]

ResetToFirstPeriod(ppc) ==
    [current_period_index |-> 0, backtest_count_in_period |-> 0,
     passed_backtests_in_period |-> 0, period_parameter_combinations |-> EmptyMap]

\* _promote_to_production (lines 397-417): log the event, then self.stop()
PromoteToProduction_NoStop(ev, run) == [events |-> ev + 1, running |-> run]

PromoteToProduction(ev, run) == [events |-> ev + 1, running |-> FALSE]

\* the end-of-period decision of run_cycle (lines 285-311)
PeriodDecision_IgnoresPassed(count, passed, idx) ==
    IF count >= config.backtests_per_period
    THEN IF idx < NumPeriods - 1 THEN "advance" ELSE "promote"
    ELSE "continue"

PeriodDecision(count, passed, idx) ==
    IF count >= config.backtests_per_period
    THEN IF passed >= config.min_passed_backtests_per_period
         THEN IF idx < NumPeriods - 1 THEN "advance" ELSE "promote"
         ELSE "reset"
    ELSE "continue"

\* ---- run_cycle, second part (lines 249-282): evaluation, reset on optimize, counters
EvaluateStep(ev) ==
    /\ cycle_pc = "evaluate"
    /\ IF ev.recommendation = "raises"
       THEN \* orchestrator.evaluate_backtest raised: the exception leaves run_cycle
            /\ cycle_pc' = "idle"
            /\ cycle' = [cycle EXCEPT !.phase = "error"]
            /\ UNCHANGED <<current_period_index, backtest_count_in_period,
                           passed_backtests_in_period, period_parameter_combinations>>
       ELSE LET optimize == ev.recommendation = "optimize"
                st == IF optimize
                      THEN ResetToFirstPeriod(period_parameter_combinations)
                      ELSE [current_period_index |-> current_period_index,
                            backtest_count_in_period |-> backtest_count_in_period,
                            passed_backtests_in_period |-> passed_backtests_in_period,
                            period_parameter_combinations |-> period_parameter_combinations]
            IN /\ current_period_index' = st.current_period_index
               /\ period_parameter_combinations' = st.period_parameter_combinations
               /\ passed_backtests_in_period' =
                      IF ev.passed THEN st.passed_backtests_in_period + 1
                                   ELSE st.passed_backtests_in_period
               /\ backtest_count_in_period' = st.backtest_count_in_period + 1
               /\ cycle_pc' = "check"
               /\ cycle' = [cycle EXCEPT
                              !.phase = "evaluated",
                              !.evaluation = ev,
                              !.optimize_attempted =
                                  optimize /\ cycle_count <= config.max_iterations_per_cycle]
    /\ UNCHANGED <<active_backtests, completed_backtests, orch_call, config, orchestrator,
                   running, cycle_count, executions_today, last_reset_date, episodic_memory,
                   events, now, loop_pc, xch,
                   sim, evaluator, optimizer, dispatcher,
                   moduleVars>>

\* ---- run_cycle, last part (lines 284-348): end-of-period decision, then the
\* cycle record is stored (not on the promote path, which returns before it).
CheckPeriod ==
    /\ cycle_pc = "check"
    /\ cycle_pc' = "idle"
    /\ LET decision == PeriodDecision(backtest_count_in_period, passed_backtests_in_period,
                                      current_period_index)
       IN CASE decision = "advance" ->
                 /\ current_period_index' = current_period_index + 1
                 /\ backtest_count_in_period' = 0
                 /\ passed_backtests_in_period' = 0
                 /\ period_parameter_combinations' =
                       [p \in (DOMAIN period_parameter_combinations) \ {current_period_index}
                           |-> period_parameter_combinations[p]]
                 /\ episodic_memory' = episodic_memory \cup {"cycle"}
                 /\ cycle' = [cycle EXCEPT !.phase = "advanced"]
                 /\ UNCHANGED <<running, events>>
            [] decision = "promote" ->
                 LET p == PromoteToProduction(events, running) IN
                 /\ events' = p.events
                 /\ running' = p.running
                 /\ cycle' = [cycle EXCEPT !.phase = "promoted"]
                 /\ UNCHANGED <<current_period_index, backtest_count_in_period,
                                passed_backtests_in_period,
                                period_parameter_combinations, episodic_memory>>
            [] decision = "reset" ->
                 LET st == ResetToFirstPeriod(period_parameter_combinations) IN
                 /\ current_period_index' = st.current_period_index
                 /\ backtest_count_in_period' = st.backtest_count_in_period
                 /\ passed_backtests_in_period' = st.passed_backtests_in_period
                 /\ period_parameter_combinations' = st.period_parameter_combinations
                 /\ episodic_memory' = episodic_memory \cup {"cycle"}
                 /\ cycle' = [cycle EXCEPT !.phase = "period_failed"]
                 /\ UNCHANGED <<running, events>>
            [] OTHER ->
                 /\ episodic_memory' = episodic_memory \cup {"cycle"}
                 /\ cycle' = [cycle EXCEPT !.phase = "completed"]
                 /\ UNCHANGED <<current_period_index, backtest_count_in_period,
                                passed_backtests_in_period, period_parameter_combinations,
                                running, events>>
    /\ UNCHANGED <<active_backtests, completed_backtests, orch_call, config, orchestrator,
                   cycle_count, executions_today, last_reset_date, now, loop_pc, xch,
                   sim, evaluator, optimizer, dispatcher,
                   moduleVars>>

\* ---- start() (lines 82-128)
Start ==
    /\ loop_pc = "idle"
    /\ cycle_pc = "idle"
    /\ ~running
    /\ running' = TRUE
    /\ loop_pc' = "head"
    /\ UNCHANGED <<active_backtests, completed_backtests, orch_call, config, orchestrator,
                   cycle_count, executions_today, last_reset_date, episodic_memory,
                   current_period_index, backtest_count_in_period,
                   passed_backtests_in_period, period_parameter_combinations, events, now,
                   cycle_pc, cycle, xch,
                   sim, evaluator, optimizer, dispatcher,
                   moduleVars>>

\* while self.running: daily reset when due; otherwise the finally block
LoopHead ==
    /\ loop_pc = "head"
    /\ IF running
       THEN /\ loop_pc' = "call"
            /\ IF config.auto_reset_memory /\ ShouldResetDaily
               THEN ResetDailyMemoryEffect
               ELSE UNCHANGED <<episodic_memory, executions_today, last_reset_date>>
            /\ UNCHANGED running
       ELSE /\ loop_pc' = "idle"
            /\ running' = FALSE
            /\ UNCHANGED <<episodic_memory, executions_today, last_reset_date>>
    /\ UNCHANGED <<active_backtests, completed_backtests, orch_call, config, orchestrator,
                   cycle_count, current_period_index, backtest_count_in_period,
                   passed_backtests_in_period, period_parameter_combinations, events, now,
                   cycle_pc, cycle, xch,
                   sim, evaluator, optimizer, dispatcher,
                   moduleVars>>

\* the loop calls run_cycle
LoopCall(outcome, exec) ==
    /\ loop_pc = "call"
    /\ loop_pc' = "in_cycle"
    /\ BeginCycle(outcome, exec)

\* try: self.run_cycle() / except Exception: log and continue (lines 104-110).
\* Where the loop stands after a cycle that ended in the given phase.
LoopOnCycleEnd_Propagates(phase) == IF phase = "error" THEN "idle" ELSE "head"

LoopOnCycleEnd(phase) == "head"

\* run_cycle has returned or raised (the loop swallows the exception); sleep if still running
LoopAfterCycle ==
    /\ loop_pc = "in_cycle"
    /\ cycle_pc = "idle"
    /\ loop_pc' = LoopOnCycleEnd(cycle.phase)
    /\ now' = IF running THEN now + config.schedule_interval_seconds * 1000 ELSE now
    /\ UNCHANGED <<active_backtests, completed_backtests, orch_call, config, orchestrator,
                   running, cycle_count, executions_today, last_reset_date, episodic_memory,
                   current_period_index, backtest_count_in_period,
                   passed_backtests_in_period, period_parameter_combinations, events,
                   cycle_pc, cycle, xch,
                   sim, evaluator, optimizer, dispatcher,
                   moduleVars>>

\* stop(): an external request, at any moment
Stop ==
    /\ running
    /\ running' = FALSE
    /\ UNCHANGED <<active_backtests, completed_backtests, orch_call, config, orchestrator,
                   cycle_count, executions_today, last_reset_date, episodic_memory,
                   current_period_index, backtest_count_in_period,
                   passed_backtests_in_period, period_parameter_combinations, events, now,
                   loop_pc, cycle_pc, cycle, xch,
                   sim, evaluator, optimizer, dispatcher,
                   moduleVars>>

\* run_cycle called directly, outside start()
DirectRunCycle(outcome, exec) ==
    /\ loop_pc = "idle"
    /\ loop_pc' = loop_pc
    /\ BeginCycle(outcome, exec)

\* reset_daily_memory called directly, outside start()
DirectResetDailyMemory ==
    /\ loop_pc = "idle"
    /\ cycle_pc = "idle"
    /\ ResetDailyMemoryEffect
    /\ UNCHANGED <<active_backtests, completed_backtests, orch_call, config, orchestrator,
                   running, cycle_count, current_period_index, backtest_count_in_period,
                   passed_backtests_in_period, period_parameter_combinations, events, now,
                   loop_pc, cycle_pc, cycle, xch,
                   sim, evaluator, optimizer, dispatcher,
                   moduleVars>>

---------------------------------------------------------------------------
(* Part B: the exchange simulator (infrastructure/exchange)                *)
(*                                                                         *)
(* The whole exchange is one record held in xch; every operation is a      *)
(* function from exchange state to exchange state, so that a handler which *)
(* calls other handlers (a candle update that completes orders, whose trade *)
(* listener cancels orders) is one action.  Decimal amounts of money are   *)
(* exact fractions <<numerator, denominator>>; quantities are whole lots.   *)

MaxOrders == 2              \* orders accepted by the exchange in one run
MaxPrice == 2               \* prices and candle extremes range over 1..MaxPrice
MaxQuantity == 2            \* order quantities range over 1..MaxQuantity

Prices == 1..MaxPrice
Quantities == 1..MaxQuantity
NoPrice == 0                \* price=None
InitialBalance == 1
Leverage == 10
MaxNotional == 6

Abs(i) == IF i < 0 THEN -i ELSE i

RECURSIVE GCD(_, _)
GCD(a, b) == IF b = 0 THEN a ELSE GCD(b, a % b)

\* the fraction n/d in lowest terms with a positive denominator
Rat(n, d) ==
    LET g == GCD(Abs(n), Abs(d))
        s == IF d < 0 THEN -1 ELSE 1
    IN  <<(s * n) \div g, (s * d) \div g>>

Dec(i) == <<i, 1>>
RAdd(a, b) == Rat(a[1] * b[2] + b[1] * a[2], a[2] * b[2])
RNeg(a) == <<-a[1], a[2]>>
RSub(a, b) == RAdd(a, RNeg(b))
RMul(a, b) == Rat(a[1] * b[1], a[2] * b[2])
RDiv(a, b) == Rat(a[1] * b[2], a[2] * b[1])
RAbs(a) == <<Abs(a[1]), a[2]>>
RLt(a, b) == a[1] * b[2] < b[1] * a[2]

\* low <= close <= high
Candles ==
    {c \in [low : Prices, close : Prices, high : Prices] :
        c.low <= c.close /\ c.close <= c.high}

FeeSchedules ==
    { [maker |-> Dec(0), taker |-> Dec(0)],
      [maker |-> Rat(1, 10), taker |-> Rat(1, 5)] }

\* who listens to trade events: nobody, or CargaDescargaStrategy.on_trade
TradeListeners == {"none", "strategy"}

Flat == [amount |-> 0, entry_price |-> Dec(0), break_even |-> Dec(0)]

\* the exception that left the latest call, if one did
NoRaise == [call |-> "none", error |-> "none"]

\* Exchange.__init__: empty repositories, zero balance, zero fees
XchIdle ==
    [ balance |-> Dec(0),
      leverage |-> 0,
      maker_fee |-> Dec(0),
      taker_fee |-> Dec(0),
      max_notional |-> 0,
      orders |-> <<>>,
      trades |-> <<>>,
      positions |-> [long |-> Flat, short |-> Flat],
      subscribed |-> FALSE,
      candle |-> [low |-> 0, close |-> 0, high |-> 0],
      trade_listener |-> "none",
      next_id |-> 1,
      ready |-> FALSE,
      raised |-> NoRaise,
      dispatched |-> <<>> ]

\* BacktestRunner.setup: balance, leverage, fees and notional cap are set,
\* the strategy may register on_trade, and the first base candle is loaded
Configured(fees, listener, c) ==
    [XchIdle EXCEPT !.balance = Dec(InitialBalance),
                    !.leverage = Leverage,
                    !.maker_fee = fees.maker,
                    !.taker_fee = fees.taker,
                    !.max_notional = MaxNotional,
                    !.trade_listener = listener,
                    !.candle = c,
                    !.ready = TRUE]

IsOpening(o) ==
    \/ (o.position_side = "long" /\ o.side = "buy")
    \/ (o.position_side = "short" /\ o.side = "sell")

HasOrder(x, id) == \E i \in 1..Len(x.orders) : x.orders[i].order_id = id
GetOrder(x, id) ==
    x.orders[CHOOSE i \in 1..Len(x.orders) : x.orders[i].order_id = id]
DeleteOrder(orders, id) == SelectSeq(orders, LAMBDA o : o.order_id # id)

\* listeners are handed the order object and read its status
DispatchOrder(x, id, status) ==
    [x EXCEPT !.dispatched =
        Append(@, [kind |-> "order", id |-> id, info |-> status])]

DispatchPositions(x, side) ==
    [x EXCEPT !.dispatched =
        Append(@, [kind |-> "position", id |-> 0, info |-> side])]

\* --- Exchange.cancel_order (as called from inside another handler)
CancelOrderCall(x, id) ==
    IF ~HasOrder(x, id) THEN x
    ELSE LET x1 == [x EXCEPT !.orders = DeleteOrder(@, id)]
             x2 == DispatchOrder(x1, id, "canceled")
         IN  IF Len(x2.orders) = 0 THEN [x2 EXCEPT !.subscribed = FALSE] ELSE x2

\* --- CargaDescargaStrategy.on_trade: "for order in orders: cancel_order".
\* orders is the repository's own list, so the iterator's index advances
\* over a list that shrinks under it.
RECURSIVE CancelLoop(_, _)
CancelLoop(x, i) ==
    IF i > Len(x.orders) THEN x
    ELSE CancelLoop(CancelOrderCall(x, x.orders[i].order_id), i + 1)

DispatchTrade(x, id) ==
    LET x1 == [x EXCEPT !.dispatched =
                  Append(@, [kind |-> "trade", id |-> id, info |-> "trade"])]
    IN  IF x.trade_listener = "strategy" THEN CancelLoop(x1, 1) ELSE x1

\* --- Exchange._complete_order, "Position closed" (lines 396-404)
ClosedPosition_KeepsEntry(position) == [position EXCEPT !.amount = 0]

ClosedPosition(position) == Flat

\* --- Exchange._complete_order, position update (lines 392-426)

PositionAfterTrade(position, o, commission) ==
    LET trade_quantity == IF o.side = "sell" THEN -o.quantity ELSE o.quantity
        trade_size_abs == Dec(Abs(trade_quantity * o.price))
        new_position_amount == position.amount + trade_quantity
        old_abs == Dec(Abs(position.amount))
        new_abs == Dec(Abs(new_position_amount))
    IN  IF new_position_amount = 0 THEN ClosedPosition(position)
        ELSE IF IsOpening(o)
        THEN [ amount |-> new_position_amount,
               break_even |->
                   RDiv(RAdd(RAdd(RMul(position.break_even, old_abs), trade_size_abs),
                             RMul(commission, Dec(2))),
                        new_abs),
               entry_price |->
                   RDiv(RAdd(RMul(position.entry_price, old_abs), trade_size_abs),
                        new_abs) ]
        ELSE [ amount |-> new_position_amount,
               break_even |->
                   RDiv(RAdd(RMul(position.break_even, old_abs), trade_size_abs),
                        new_abs),
               entry_price |-> position.entry_price ]

\* --- Exchange._complete_order
CompleteOrder(x, o) ==
    LET fee == IF o.type = "limit" THEN x.maker_fee ELSE x.taker_fee
        trade_quantity == IF o.side = "sell" THEN -o.quantity ELSE o.quantity
        position == x.positions[o.position_side]
        value == RMul(Dec(o.quantity), RSub(Dec(o.price), position.entry_price))
        commission == RAbs(RMul(Dec(o.quantity * o.price), fee))
        closes_long == o.position_side = "long" /\ o.side = "sell"
        closes_short == o.position_side = "short" /\ o.side = "buy"
        total_change ==
            IF closes_long THEN RSub(value, commission)
            ELSE IF closes_short THEN RSub(RNeg(value), commission)
            ELSE RNeg(commission)
        realized_pnl ==
            IF closes_long \/ closes_short THEN total_change ELSE Dec(0)
        trade == [ order_id |-> o.order_id,
                   position_side |-> o.position_side,
                   side |-> o.side,
                   price |-> o.price,
                   quantity |-> o.quantity,
                   commission |-> commission,
                   realized_pnl |-> realized_pnl,
                   closes_position_completely |->
                       (position.amount + trade_quantity = 0) ]
        x1 == [x EXCEPT !.balance = RAdd(@, total_change),
                        !.trades = Append(@, trade)]
        x2 == DispatchTrade(x1, o.order_id)
        x3 == DispatchOrder([x2 EXCEPT !.orders = DeleteOrder(@, o.order_id)],
                            o.order_id, "filled")
        x4 == [x3 EXCEPT !.positions[o.position_side] =
                             PositionAfterTrade(position, o, commission)]
    IN  DispatchPositions(x4, o.position_side)

\* --- Exchange._on_candle_update, fill condition (lines 261-284)
FillCondition(o, c) ==
    IF o.position_side = "long"
    THEN \/ (o.side = "buy" /\ (o.price >= c.close \/ o.price >= c.low))
         \/ (o.side = "sell" /\ (o.price <= c.close \/ o.price <= c.high))
    ELSE \/ (o.side = "sell" /\ (o.price <= c.close \/ o.price <= c.high))
         \/ (o.side = "buy" /\ (o.price >= c.close \/ o.price >= c.low))

\* "for order in orders": orders is the repository's own list and
\* _complete_order deletes from it, so the index advances over the list as
\* it stands after each iteration.
RECURSIVE FillLoop(_, _, _)
FillLoop(x, c, i) ==
    IF i > Len(x.orders) THEN x
    ELSE LET o == x.orders[i]
         IN  FillLoop(IF FillCondition(o, c) THEN CompleteOrder(x, o) ELSE x, c, i + 1)

\* balance + worst-case unrealized PnL (lines 206-222)
RealBalance(x, c) ==
    LET long_position == x.positions.long
        short_position == x.positions.short
        long_unrealized_pnl ==
            IF long_position.amount > 0
            THEN RMul(Dec(long_position.amount),
                      RSub(Dec(c.low), long_position.entry_price))
            ELSE Dec(0)
        short_unrealized_pnl ==
            IF short_position.amount < 0
            THEN RMul(Dec(Abs(short_position.amount)),
                      RSub(short_position.entry_price, Dec(c.high)))
            ELSE Dec(0)
    IN  RAdd(x.balance, RAdd(long_unrealized_pnl, short_unrealized_pnl))

Liquidate(x) ==
    DispatchPositions(
        DispatchPositions(
            [x EXCEPT !.balance = Dec(0),
                      !.positions = [long |-> Flat, short |-> Flat]],
            "long"),
        "short")

\* --- Exchange._on_candle_update
OnCandleUpdate(x, c) ==
    LET x1 == IF RLt(RealBalance(x, c), Dec(0)) THEN Liquidate(x) ELSE x
    IN  FillLoop(x1, c, 1)

\* every operation starts a fresh record of what listeners observe
Begin(x) == [x EXCEPT !.dispatched = <<>>, !.raised = NoRaise]

NotionalCheck(x, quantity) ==
    LET close_price == x.candle.close
        positions_amount ==
            Abs(x.positions.long.amount) + Abs(x.positions.short.amount)
        positions_notional == positions_amount * close_price
        order_notional == Abs(quantity) * close_price
    IN  IF RLt(x.balance, RDiv(Dec(order_notional), Dec(x.leverage)))
        THEN "Insufficient balance"
        ELSE IF positions_notional + order_notional > x.max_notional
        THEN "Max notional exceeded"
        ELSE "none"

\* --- Exchange.new_order, the checks that raise (lines 106-128)
NewOrderRejection(x, position_side, side, type, quantity, price) ==
    IF type = "market" /\ price # NoPrice
    THEN "Market orders must not specify a price"
    ELSE IF type = "limit" /\ price = NoPrice
    THEN "Limit orders must specify a price"
    ELSE IF IsOpening([position_side |-> position_side, side |-> side])
    THEN NotionalCheck(x, quantity)
    ELSE "none"

\* --- Exchange.new_order raising: the checks come before the order is
\* registered with the repository (line 130)
RaiseFromNewOrder_AfterRegistering(x, registered, error) ==
    [registered EXCEPT !.raised = [call |-> "new_order", error |-> error]]

RaiseFromNewOrder(x, registered, error) ==
    [x EXCEPT !.raised = [call |-> "new_order", error |-> error]]

\* --- Exchange.new_order
NewOrderCall(x0, position_side, side, type, quantity, price) ==
    LET x == Begin(x0)
        o == [ order_id |-> x.next_id, position_side |-> position_side,
               side |-> side, type |-> type, quantity |-> quantity,
               price |-> IF type = "market" THEN x.candle.close ELSE price ]
        x1 == [x EXCEPT !.orders = Append(@, o), !.next_id = @ + 1]
        rejection == NewOrderRejection(x, position_side, side, type, quantity, price)
    IN  IF rejection # "none" THEN RaiseFromNewOrder(x, x1, rejection)
        ELSE IF type = "market" THEN CompleteOrder(x1, o)
        ELSE DispatchOrder([x1 EXCEPT !.subscribed = TRUE], o.order_id, "new")

\* --- Exchange.modify_order, called the way the strategy calls it: the
\* caller has already written the new quantity, price and type into the
\* resting order object it got from get_orders
ModifyOrderCall(x0, id, type, quantity, price) ==
    LET x == Begin(x0)
        i == CHOOSE k \in 1..Len(x.orders) : x.orders[k].order_id = id
        o == [x.orders[i] EXCEPT !.type = type, !.quantity = quantity,
                                 !.price = IF type = "market"
                                           THEN x.candle.close ELSE price]
        written == [x EXCEPT !.orders[i] =
                       [o EXCEPT !.price = IF type = "market"
                                           THEN x.orders[i].price ELSE price]]
        rejection == IF IsOpening(o) THEN NotionalCheck(x, quantity) ELSE "none"
    IN  IF rejection # "none"
        THEN [written EXCEPT !.raised = [call |-> "modify_order", error |-> rejection]]
        ELSE IF type = "market"
        THEN LET x1 == CompleteOrder(written, o)
             IN  [x1 EXCEPT !.orders = DeleteOrder(@, id)]
        ELSE DispatchOrder(written, id, "new")

AgentsIdle == loop_pc = "idle" /\ cycle_pc = "idle" /\ ~running

RestingIds(x) == {x.orders[i].order_id : i \in 1..Len(x.orders)}

\* --- a caller (the strategy, a test) places an order
NewOrder(position_side, side, type, quantity, price) ==
    /\ AgentsIdle
    /\ xch.ready
    /\ xch.next_id <= MaxOrders
    /\ xch' = NewOrderCall(xch, position_side, side, type, quantity, price)
    /\ UNCHANGED <<agentVars, serviceVars, moduleVars>>

ModifyOrder(id, type, quantity, price) ==
    /\ AgentsIdle
    /\ id \in RestingIds(xch)
    /\ xch' = ModifyOrderCall(xch, id, type, quantity, price)
    /\ UNCHANGED <<agentVars, serviceVars, moduleVars>>

CancelOrder(id) ==
    /\ AgentsIdle
    /\ xch.ready
    /\ xch' = CancelOrderCall(Begin(xch), id)
    /\ UNCHANGED <<agentVars, serviceVars, moduleVars>>

\* --- the market data simulator completes a base-timeframe candle: it
\* becomes the latest candle and the exchange's internal listener, if
\* subscribed, runs _on_candle_update
CandleUpdate(c) ==
    /\ AgentsIdle
    /\ xch.ready
    /\ LET x == [Begin(xch) EXCEPT !.candle = c]
       IN  xch' = IF x.subscribed THEN OnCandleUpdate(x, c) ELSE x
    /\ UNCHANGED <<agentVars, serviceVars, moduleVars>>

---------------------------------------------------------------------------
(* Part C: MarketDataSimulator (simulator.py), its candle store            *)
(* (candles_repository.py) and its event dispatcher, for one symbol.       *)
(* A candle is identified by <<timeframe, timestamp>>.                     *)

MaxTicks == 4               \* next_candle calls explored
MaxSetTimes == 2            \* set_times calls explored (the simulator is reused)

\* domain/constants.py, for the timeframes explored
SimTimeframes == {"1m", "3m", "5m"}
TIMEFRAME_MINUTES == [tf \in SimTimeframes |->
                        IF tf = "1m" THEN 1 ELSE IF tf = "3m" THEN 3 ELSE 5]
TimeframeMs(tf) == TIMEFRAME_MINUTES[tf] * ONE_MINUTE_MS

NoStamp == -1

\* the start of the replay: minute 30, aligned for every timeframe
SimT0 == 30 * ONE_MINUTE_MS
\* int(time.time() * 1000) when set_times runs
SimSystemTime == SimT0 + 8 * ONE_MINUTE_MS

\* symbols_timeframes[symbol] as the caller wrote it (runner.py:61, simulator_agent.py:67)
TimeframeLists == {<<"1m">>, <<"1m", "3m">>, <<"3m", "1m">>,
                   <<"1m", "3m", "5m">>, <<"1m", "5m", "3m">>}

MinOf(S) == CHOOSE x \in S : \A y \in S : x <= y

\* get_base_timeframe: the timeframe of shortest duration, "1m" for an empty list
GetBaseTimeframe(timeframes) ==
    IF timeframes = <<>> THEN "1m"
    ELSE LET n == MinOf({TIMEFRAME_MINUTES[timeframes[i]] : i \in 1..Len(timeframes)})
         IN CHOOSE tf \in SimTimeframes : TIMEFRAME_MINUTES[tf] = n

\* The market data source (client.klines with startTime): the candles of the
\* timeframe that open at or after start_time, oldest first.  "complete" has
\* every aligned candle up to the system time, "empty" returns nothing.
SourceModes == {"complete", "empty"}

SourceCandles(mode, timeframe, start_time) ==
    IF mode = "empty" THEN {}
    ELSE {<<timeframe, k * TimeframeMs(timeframe)>> :
             k \in {j \in 0..(SimSystemTime \div TimeframeMs(timeframe)) :
                       j * TimeframeMs(timeframe) >= start_time}}

Stamps(candles) == {c[2] : c \in candles}

\* candles[0] of a list sorted by timestamp, NoStamp for an empty list
FirstStamp(candles) == IF candles = {} THEN NoStamp ELSE MinOf(Stamps(candles))

\* CandlesRepository.get_next_candle: WHERE timestamp > ? AND timeframe = ? ORDER BY timestamp LIMIT 1
GetNextCandle(store, timestamp, timeframe) ==
    FirstStamp({c \in store : c[1] = timeframe /\ c[2] > timestamp})

\* CandlesRepository.get_candles with limit 1: WHERE timeframe = ? AND timestamp >= ?
RepoGetCandles(store, timeframe, start_time) ==
    FirstStamp({c \in store : c[1] = timeframe /\ c[2] >= start_time})

NoSimRaise == "none"

\* MarketDataSimulator.__init__ over a given candles.db and data source
SimNew(store, source) ==
    [start_time |-> 0, end_time |-> 0, min_candles |-> 0, current_time |-> 0,
     timeframes |-> <<>>, listeners |-> {}, ended |-> FALSE,
     last_candle |-> [tf \in SimTimeframes |-> NoStamp],
     store |-> store, source |-> source,
     log |-> <<>>, tick |-> 0, set_times_calls |-> 0, raised |-> NoSimRaise]

SimIdle == SimNew({}, "empty")

\* set_times (lines 94-142): endeds and last_candle are not touched
SetTimes(s, start, end, min_candles) ==
    LET safe_end_time == SimSystemTime - ONE_MINUTE_MS
    IN [s EXCEPT !.start_time = start, !.current_time = start,
                 !.min_candles = min_candles,
                 !.end_time = IF end = NoStamp \/ end >= SimSystemTime
                              THEN safe_end_time ELSE end,
                 !.set_times_calls = @ + 1, !.raised = NoSimRaise]

\* add_complete_candle_listener (lines 330-343)
AddCompleteCandleListener(s, timeframe) ==
    IF s.start_time = 0 THEN [s EXCEPT !.raised = "No configuration found"]
    ELSE LET known == \E i \in 1..Len(s.timeframes) : s.timeframes[i] = timeframe
             new_current_time == s.start_time - TimeframeMs(timeframe) * s.min_candles
         IN [s EXCEPT !.timeframes = IF known THEN @ ELSE Append(@, timeframe),
                      !.current_time = IF ~known /\ new_current_time < @
                                       THEN new_current_time ELSE @,
                      !.listeners = @ \cup {timeframe},
                      !.raised = NoSimRaise]

\* EventDispatcher.dispatch_complete_candle as seen from outside: the log
\* records the candle, the base candle being processed, start_time at that
\* moment, and whether a listener is registered for the candle's timeframe.
DispatchCompleteCandle(s, timeframe, timestamp, base_stamp) ==
    [s EXCEPT !.log = Append(@, [tick |-> s.tick, timeframe |-> timeframe,
                                 timestamp |-> timestamp, base |-> base_stamp,
                                 start_time |-> s.start_time,
                                 delivered |-> timeframe \in s.listeners])]

\* MarketDataSimulator.get_candles(symbol, timeframe, 1) (lines 276-328):
\* the store after the call and the candle returned (NoStamp for [])
SimGetCandles(s, timeframe) ==
    LET anchor == IF s.current_time < s.start_time THEN s.start_time ELSE s.current_time
        end_time == anchor - TimeframeMs(timeframe)
        start_time == end_time - TimeframeMs(timeframe)
        api == SourceCandles(s.source, timeframe, start_time)
        found == RepoGetCandles(s.store, timeframe, start_time)
        first == IF found = NoStamp THEN FirstStamp(api) ELSE found
        refetch == first # NoStamp /\ first > end_time + ONE_MINUTE_MS
    IN [store |-> IF found = NoStamp \/ refetch THEN s.store \cup api ELSE s.store,
        stamp |-> IF refetch THEN FirstStamp(api) ELSE first]

\* the test that guards the dispatch of a higher-timeframe candle (lines 259-262)
IsNewCandle_Always(last, stamp) == TRUE

IsNewCandle(last, stamp) == last = NoStamp \/ stamp > last

\* "Process other timeframes" (lines 246-266): the configured list is walked
\* in its own order from position i on
RECURSIVE OtherTimeframes(_, _, _, _)
OtherTimeframes(s, base_timeframe, base_stamp, i) ==
    IF i > Len(s.timeframes) THEN s
    ELSE LET timeframe == s.timeframes[i] IN
         IF timeframe = base_timeframe
         THEN OtherTimeframes(s, base_timeframe, base_stamp, i + 1)
         ELSE LET Delivered(got) ==
                      IF got.stamp # NoStamp /\ IsNewCandle(s.last_candle[timeframe], got.stamp)
                      THEN DispatchCompleteCandle(
                               [s EXCEPT !.store = got.store,
                                         !.last_candle[timeframe] = got.stamp],
                               timeframe, got.stamp, base_stamp)
                      ELSE [s EXCEPT !.store = got.store]
              IN OtherTimeframes(Delivered(SimGetCandles(s, timeframe)),
                                 base_timeframe, base_stamp, i + 1)

\* _next_candle(symbol, timeframes, dispatch) (lines 184-270): the simulator
\* after the call and the timestamp of the candle returned; current_time is
\* advanced by the caller
NextCandleFor(s, dispatch) ==
    IF s.ended THEN [sim |-> [s EXCEPT !.raised = "Symbol ended"], stamp |-> NoStamp]
    ELSE LET Far(base_timeframe, found) ==
                 found # NoStamp /\ found > s.current_time + TimeframeMs(base_timeframe)
             Fetched(base_timeframe, found, api) ==
                 [s EXCEPT !.store = IF found = NoStamp \/ Far(base_timeframe, found)
                                     THEN @ \cup api ELSE @]
             Processed(base_timeframe, s1, candle) ==
                 IF candle = NoStamp
                 THEN [sim |-> [s1 EXCEPT !.raised = "No candles available"],
                       stamp |-> NoStamp]
                 ELSE [sim |-> OtherTimeframes(
                                   IF dispatch
                                   THEN DispatchCompleteCandle(s1, base_timeframe, candle, candle)
                                   ELSE s1,
                                   base_timeframe, candle, 1),
                       stamp |-> candle]
             Chosen(base_timeframe, found, api) ==
                 Processed(base_timeframe, Fetched(base_timeframe, found, api),
                           IF found = NoStamp THEN FirstStamp(api)
                           ELSE IF Far(base_timeframe, found) /\ api # {} THEN FirstStamp(api)
                           ELSE found)
             Looked(base_timeframe) ==
                 Chosen(base_timeframe,
                        GetNextCandle(s.store, s.current_time, base_timeframe),
                        SourceCandles(s.source, base_timeframe, s.current_time))
         IN Looked(GetBaseTimeframe(s.timeframes))

\* iterations of the warm-up loop followed before giving up
WarmUpFuel == 12

\* while self.current_time < self.start_time (lines 160-162)
RECURSIVE WarmUp(_, _, _)
WarmUp(s, last, fuel) ==
    IF ~(s.current_time < s.start_time) THEN [sim |-> s, stamp |-> last]
    ELSE IF fuel = 0 THEN [sim |-> [s EXCEPT !.raised = "no progress"], stamp |-> last]
    ELSE LET Advanced(r) ==
                 IF r.sim.raised # NoSimRaise THEN r
                 ELSE WarmUp([r.sim EXCEPT !.current_time = r.stamp], r.stamp, fuel - 1)
         IN Advanced(NextCandleFor(s, FALSE))

\* next_candle (lines 144-182) for the one symbol configured
NextCandle(s) ==
    LET AfterWarmUp(w) ==
            IF w.sim.raised # NoSimRaise THEN w
            ELSE [sim |-> DispatchCompleteCandle(
                              [w.sim EXCEPT !.start_time = w.stamp],
                              GetBaseTimeframe(s.timeframes), w.stamp, w.stamp),
                  stamp |-> w.stamp]
        AfterNext(n) ==
            IF n.sim.raised # NoSimRaise THEN n
            ELSE [sim |-> [n.sim EXCEPT !.current_time = n.stamp], stamp |-> n.stamp]
        Candle(s0) ==
            IF s0.current_time < s0.start_time
            THEN AfterWarmUp(WarmUp(s0, NoStamp, WarmUpFuel))
            ELSE AfterNext(NextCandleFor(s0, TRUE))
        EndCheck(r) ==
            IF r.sim.raised # NoSimRaise THEN r.sim
            ELSE [r.sim EXCEPT !.ended = @ \/ r.sim.current_time >= r.sim.end_time]
    IN EndCheck(Candle([s EXCEPT !.tick = @ + 1, !.raised = NoSimRaise]))

\* ---- actions of the simulator's caller
SimStarts == {SimT0}
SimEnds == {NoStamp, SimT0 + 2 * ONE_MINUTE_MS, SimT0 + 4 * ONE_MINUTE_MS,
            SimSystemTime + ONE_MINUTE_MS}
SimMinCandles == {0, 1}

SimSetTimes(start, end, min_candles) ==
    /\ sim.set_times_calls < MaxSetTimes
    /\ sim' = SetTimes(sim, start, end, min_candles)
    /\ UNCHANGED <<agentVars, xch, evaluator, optimizer, dispatcher, moduleVars>>

\* symbols_timeframes[symbol] = timeframes
SimAddSymbol(timeframes) ==
    /\ sim.set_times_calls > 0
    /\ sim.tick = 0
    /\ sim.timeframes = <<>>
    /\ sim' = [sim EXCEPT !.timeframes = timeframes, !.raised = NoSimRaise]
    /\ UNCHANGED <<agentVars, xch, evaluator, optimizer, dispatcher, moduleVars>>

SimAddListener(timeframe) ==
    /\ sim.tick = 0
    /\ timeframe \notin sim.listeners
    /\ sim' = AddCompleteCandleListener(sim, timeframe)
    /\ UNCHANGED <<agentVars, xch, evaluator, optimizer, dispatcher, moduleVars>>

SimNextCandle ==
    /\ sim.timeframes # <<>>
    /\ sim.tick < MaxTicks
    /\ sim' = NextCandle(sim)
    /\ UNCHANGED <<agentVars, xch, evaluator, optimizer, dispatcher, moduleVars>>

---------------------------------------------------------------------------
(* Part D: EvaluatorAgent and OptimizerAgent *)

\* Metric values and thresholds are in hundredths (2.0 is 200), so that the
\* comparisons with 0.8, 1.2 and 2.0 times a threshold are exact.
KpiNames == {"sharpe_ratio", "max_drawdown", "profit_factor"}

\* EvaluatorAgent.DEFAULT_KPIS (lines 25-29)
DEFAULT_KPIS == [k \in KpiNames |->
                    IF k = "sharpe_ratio" THEN 200
                    ELSE IF k = "max_drawdown" THEN 1000 ELSE 150]

\* a metric that is absent from the filtered metrics (metrics.get -> None)
NoMetric == -100000

\* values explored for each metric: passing, failing within 20% of the
\* threshold, failing further away, failing critically, absent
MetricValues == [k \in KpiNames |->
                    IF k = "sharpe_ratio" THEN {NoMetric, -50, 100, 170, 250}
                    ELSE IF k = "max_drawdown" THEN {NoMetric, 500, 1100, 1500, 2500}
                    ELSE {NoMetric, 50, 110, 140, 200}]

MetricInputs == [KpiNames -> UNION {MetricValues[k] : k \in KpiNames}]

\* request.kpis: the KPI names it carries, with the default thresholds;
\* None and {} are both replaced by DEFAULT_KPIS (line 84)
KpiRequests == SUBSET KpiNames

EffectiveKpis(requested) == IF requested = {} THEN KpiNames ELSE requested

\* the compliance of one KPI (lines 88-101)
Complies(kpi_name, metric_value, threshold) ==
    IF metric_value = NoMetric THEN FALSE
    ELSE IF kpi_name = "max_drawdown" THEN Abs(metric_value) <= Abs(threshold)
    ELSE metric_value >= threshold

KpiCompliance(kpis, metrics) ==
    [k \in kpis |-> Complies(k, metrics[k], DEFAULT_KPIS[k])]

\* all(kpi_compliance.values()) if kpi_compliance else False (line 104)
EvaluationPassed_Any(kpi_compliance) ==
    \E k \in DOMAIN kpi_compliance : kpi_compliance[k]

EvaluationPassed(kpi_compliance) ==
    /\ DOMAIN kpi_compliance # {}
    /\ \A k \in DOMAIN kpi_compliance : kpi_compliance[k]

\* metrics.get(kpi_name, 0.0)
MetricOrZero(metrics, k) == IF metrics[k] = NoMetric THEN 0 ELSE metrics[k]

\* the per-metric tests of _generate_recommendation (lines 168-177, 186-201)
CloseToThreshold(kpi_name, metric_value, threshold) ==
    IF kpi_name = "max_drawdown"
    THEN Abs(metric_value) * 10 <= Abs(threshold) * 12
    ELSE metric_value * 10 >= threshold * 8

CriticalFailure(kpi_name, metric_value, threshold) ==
    IF kpi_name = "max_drawdown" THEN Abs(metric_value) > Abs(threshold) * 2
    ELSE IF kpi_name = "profit_factor" THEN metric_value < 100
    ELSE metric_value < 0

\* _generate_recommendation (lines 143-212): both loops stop at the first
\* failing KPI that satisfies their test
GenerateRecommendation(evaluation_passed, kpi_compliance, metrics) ==
    LET failing == {k \in DOMAIN kpi_compliance : ~kpi_compliance[k]}
        close_to_threshold ==
            \E k \in failing : CloseToThreshold(k, MetricOrZero(metrics, k), DEFAULT_KPIS[k])
        critical_failures ==
            \E k \in failing : CriticalFailure(k, MetricOrZero(metrics, k), DEFAULT_KPIS[k])
    IN IF evaluation_passed THEN "promote"
       ELSE IF critical_failures THEN "reject"
       ELSE IF close_to_threshold THEN "optimize"
       ELSE "reject"

\* EvaluatorAgent.evaluate (lines 48-141) on results whose filtered metrics
\* are `metrics` and a request carrying the KPIs `requested`
EvaluateCall(requested, metrics) ==
    LET kpis == EffectiveKpis(requested)
        kpi_compliance == KpiCompliance(kpis, metrics)
        evaluation_passed == EvaluationPassed(kpi_compliance)
    IN [call |-> "evaluate", kpis |-> kpis, metrics |-> metrics,
        kpi_compliance |-> kpi_compliance,
        evaluation_passed |-> evaluation_passed,
        recommendation |-> GenerateRecommendation(evaluation_passed, kpi_compliance, metrics)]

EvaluatorIdle == [call |-> "none"]

Evaluate(requested, metrics) ==
    /\ evaluator' = EvaluateCall(requested, metrics)
    /\ UNCHANGED <<agentVars, xch, sim, optimizer, dispatcher, moduleVars>>

\* ---- OptimizerAgent (optimizer_agent.py)

MaxRsiLen == 3              \* longest rsi_limits list a response carries

\* values an rsi_limits entry may hold
RsiValues == {20, 50, 80, 105}

\* a parameter value: absent from the dict, None, a number, or a list
NoParam == [kind |-> "absent", list |-> <<>>, number |-> 0]
NoneParam == [kind |-> "none", list |-> <<>>, number |-> 0]
NumberParam(n) == [kind |-> "number", list |-> <<>>, number |-> n]
ListParam(l) == [kind |-> "list", list |-> l, number |-> 0]

RsiLists == UNION {[1..n -> RsiValues] : n \in 0..MaxRsiLen}

\* suggested_params["rsi_limits"] in the LLM's answer
SuggestedRsi == {NoParam, NoneParam} \cup {NumberParam(n) : n \in RsiValues}
                    \cup {ListParam(l) : l \in RsiLists}

\* request.parameter_space: whether it declares "rsi_limits" and with which values
NoSpace == [declared |-> FALSE, values |-> {}]
ParameterSpaces == {NoSpace, [declared |-> TRUE, values |-> {20, 50, 80}],
                    [declared |-> TRUE, values |-> RsiValues]}

\* the explicit rsi_limits check of _validate_parameters (lines 292-302)
RsiLimitsValid(rsi) ==
    /\ rsi.kind = "list"
    /\ Len(rsi.list) = 3
    /\ \A i \in 1..3 : 0 <= rsi.list[i] /\ rsi.list[i] <= 100
    /\ rsi.list[1] < rsi.list[2] /\ rsi.list[2] < rsi.list[3]

\* the second pass over parameter_space (lines 318-325)
InParameterSpace(rsi, space) ==
    /\ space.declared
    /\ \/ rsi.kind = "number" /\ rsi.number \in space.values
       \/ rsi.kind = "list" /\ \A i \in 1..Len(rsi.list) : rsi.list[i] \in space.values

\* _validate_parameters (lines 277-330), for the key "rsi_limits"
ValidateParameters(suggested, space) ==
    IF RsiLimitsValid(suggested) THEN suggested
    ELSE IF suggested.kind # "absent" /\ InParameterSpace(suggested, space) THEN suggested
    ELSE NoParam

\* what the LLM path meets: no client, chat_json raising, an answer that is
\* not JSON, or a parsed answer
LlmModes == {"not_configured", "raises", "malformed", "responds"}

\* the latest of previous_results, as _fallback_optimize reads it
LatestResults == {"none", "low_profit_factor", "high_drawdown", "within_kpis"}

\* request.backtest_config: None, or a StartBacktestRequest whose rsi_limits
\* is None or a validated list
BacktestConfigs == {NoParam, NoneParam, ListParam(<<15, 50, 85>>), ListParam(<<0, 3, 50>>)}

OptimizerRaise == [call |-> "optimize", raised |-> TRUE, method |-> "none",
                   confidence |-> 0, rsi_limits |-> NoParam]

\* _fallback_optimize (lines 332-386); confidence in hundredths
FallbackOptimize(space, latest, backtest_config) ==
    LET adjusts == latest \in {"low_profit_factor", "high_drawdown"} /\ space.declared
        current == IF backtest_config.kind = "absent" THEN <<15, 50, 85>>
                   ELSE backtest_config.list
    IN IF adjusts /\ backtest_config.kind = "none"
       THEN OptimizerRaise     \* current is None: current[0] raises TypeError
       ELSE [call |-> "optimize", raised |-> FALSE, method |-> "fallback_deterministic",
             confidence |-> 40,
             rsi_limits |->
                 IF ~adjusts THEN NoParam
                 ELSE IF latest = "low_profit_factor"
                 THEN ListParam(<<Max(5, current[1] - 5), current[2], Min(95, current[3] + 5)>>)
                 ELSE ListParam(<<Min(30, current[1] + 5), current[2], Max(70, current[3] - 5)>>)]

\* optimize (lines 54-117) with _parse_llm_response (lines 226-275); the
\* answer's confidence is taken as 0.8
OptimizeCall(llm, suggested, space, latest, backtest_config) ==
    IF llm = "responds"
    THEN [call |-> "optimize", raised |-> FALSE, method |-> "llm", confidence |-> 80,
          rsi_limits |-> ValidateParameters(suggested, space)]
    ELSE FallbackOptimize(space, latest, backtest_config)

OptimizerIdle == [call |-> "none"]

Optimize(llm, suggested, space, latest, backtest_config) ==
    /\ optimizer' = [input |-> [llm |-> llm, suggested |-> suggested, space |-> space,
                                latest |-> latest, backtest_config |-> backtest_config]]
                        @@ OptimizeCall(llm, suggested, space, latest, backtest_config)
    /\ UNCHANGED <<agentVars, xch, sim, evaluator, dispatcher, moduleVars>>

---------------------------------------------------------------------------
(* Part E: the event dispatchers (simulator/adapters/event_dispatcher.py   *)
(* for candles, exchange/adapters/event_dispatcher.py for orders,          *)
(* positions and trades)                                                   *)

MaxListeners == 2           \* listeners registered per event kind

EventKinds == {"candle", "trade", "order", "position"}

\* what a registered callable does when it is called:
\*   "ok"       accepts the call and returns
\*   "raises"   runs and raises an exception that is not a TypeError
\*   "one_arg"  takes the event only: the two-argument call raises TypeError
\*              before the body runs, the one-argument call returns
ListenerKinds == {"ok", "raises", "one_arg"}

NoDispatch == [event |-> "none", invoked |-> <<>>, propagated |-> FALSE]

\* EventDispatcher.__init__ of both classes
DispatcherIdle == [listeners |-> [k \in EventKinds |-> <<>>], last |-> NoDispatch]

\* for listener in listeners: try: listener(x) except Exception: log
\* (dispatch_complete_candle lines 49-63, dispatch_trade lines 60-67)
RECURSIVE DispatchCatchingAll(_, _, _)
DispatchCatchingAll(listeners, i, d) ==
    IF i > Len(listeners) THEN d
    ELSE DispatchCatchingAll(listeners, i + 1, [d EXCEPT !.invoked = Append(@, i)])

\* for listener in listeners: try: listener(x, old) except TypeError: listener(x)
\* (dispatch_order lines 24-31, dispatch_positions lines 42-49)
RECURSIVE DispatchCatchingTypeError(_, _, _)
DispatchCatchingTypeError(listeners, i, d) ==
    IF i > Len(listeners) THEN d
    ELSE LET called == [d EXCEPT !.invoked = Append(@, i)]
         IN IF listeners[i] = "raises"
            THEN [called EXCEPT !.propagated = TRUE]
            ELSE DispatchCatchingTypeError(listeners, i + 1, called)

\* the dispatch method of each event kind
DispatchEvent(listeners, event) ==
    LET d == [NoDispatch EXCEPT !.event = event]
    IN IF event \in {"candle", "trade"}
       THEN DispatchCatchingAll(listeners, 1, d)
       ELSE DispatchCatchingTypeError(listeners, 1, d)

\* add_complete_candle_listener / add_trade_listener / add_orders_listener / add_position_listener
AddListener(event, kind) ==
    /\ Len(dispatcher.listeners[event]) < MaxListeners
    /\ dispatcher' = [dispatcher EXCEPT !.listeners[event] = Append(@, kind)]
    /\ UNCHANGED <<agentVars, xch, sim, evaluator, optimizer, moduleVars>>

Dispatch(event) ==
    /\ dispatcher' = [dispatcher EXCEPT
                         !.last = DispatchEvent(dispatcher.listeners[event], event)]
    /\ UNCHANGED <<agentVars, xch, sim, evaluator, optimizer, moduleVars>>

---------------------------------------------------------------------------
(* Part F: ResultsRepository (infrastructure/registry/results_repository.py) *)
(* The three directories are files[type][run_id]; index.json is runs,       *)
(* strategies and symbols.                                                  *)

RegistryRunIds == {"run_a", "run_b"}
ResultTypes == {"backtest", "evaluation", "optimization"}

\* no file {run_id}.json in the directory
NoPayload == [strategy_name |-> "none", symbol |-> "none", body |-> 0]

\* payloads handed to the store calls; the second one carries neither
\* "strategy_name" nor "symbol", which data.get(..., "unknown") reads as "unknown"
RegistryPayloads ==
    { [strategy_name |-> "carga_descarga", symbol |-> "BTCUSDT", body |-> 1],
      [strategy_name |-> "unknown", symbol |-> "unknown", body |-> 2] }

StrategyNames == {p.strategy_name : p \in RegistryPayloads}
RegistrySymbols == {p.symbol : p \in RegistryPayloads}

\* run_id not in index["runs"]
NoIndexEntry == [listed |-> FALSE, strategy_name |-> "none", symbol |-> "none",
                 result_types |-> <<>>]

\* retrieve_by_run_id returned None, or nothing was retrieved yet
NoRetrieval == [found |-> FALSE,
                results |-> [t \in ResultTypes |-> NoPayload],
                index |-> NoIndexEntry]

\* ResultsRepository.__init__ on an empty base path, with _init_index
RegistryIdle ==
    [ files |-> [t \in ResultTypes |-> [r \in RegistryRunIds |-> NoPayload]],
      runs |-> [r \in RegistryRunIds |-> NoIndexEntry],
      strategies |-> [n \in StrategyNames |-> <<>>],
      symbols |-> [n \in RegistrySymbols |-> <<>>],
      last |-> [call |-> "none", run_id |-> "none", result |-> NoRetrieval] ]

InSeq(x, seq) == \E i \in 1..Len(seq) : seq[i] = x
AppendNew(seq, x) == IF InSeq(x, seq) THEN seq ELSE Append(seq, x)

\* _update_index (lines 66-102)
UpdateIndex(g, run_id, strategy_name, symbol, result_type) ==
    LET entry == IF g.runs[run_id].listed THEN g.runs[run_id]
                 ELSE [listed |-> TRUE, strategy_name |-> strategy_name,
                       symbol |-> symbol, result_types |-> <<>>]
    IN [g EXCEPT !.runs[run_id] =
                     [entry EXCEPT !.result_types = AppendNew(@, result_type)],
                 !.strategies[strategy_name] = AppendNew(@, run_id),
                 !.symbols[symbol] = AppendNew(@, run_id)]

\* store_backtest (lines 104-133)
StoreBacktest(g, run_id, data) ==
    UpdateIndex([g EXCEPT !.files["backtest"][run_id] = data],
                run_id, data.strategy_name, data.symbol, "backtest")

\* store_evaluation (lines 135-159)
StoreEvaluation(g, run_id, data) == [g EXCEPT !.files["evaluation"][run_id] = data]

\* store_optimization (lines 161-185)
StoreOptimization(g, run_id, data) == [g EXCEPT !.files["optimization"][run_id] = data]

\* retrieve_by_run_id (lines 187-225)
RetrieveByRunId(g, run_id) ==
    LET results == [t \in ResultTypes |-> g.files[t][run_id]]
    IN IF ~g.runs[run_id].listed THEN NoRetrieval
       ELSE IF \A t \in ResultTypes : results[t] = NoPayload THEN NoRetrieval
       ELSE [found |-> TRUE, results |-> results, index |-> g.runs[run_id]]

RegistryStore(result_type, run_id, data) ==
    /\ registry' =
          [ (CASE result_type = "backtest" -> StoreBacktest(registry, run_id, data)
               [] result_type = "evaluation" -> StoreEvaluation(registry, run_id, data)
               [] OTHER -> StoreOptimization(registry, run_id, data))
            EXCEPT !.last = [call |-> result_type, run_id |-> run_id,
                             result |-> NoRetrieval] ]
    /\ UNCHANGED <<agentVars, xch, serviceVars, children, context, strategy, multi>>

RegistryRetrieve(run_id) ==
    /\ registry' = [registry EXCEPT !.last =
                       [call |-> "retrieve", run_id |-> run_id,
                        result |-> RetrieveByRunId(registry, run_id)]]
    /\ UNCHANGED <<agentVars, xch, serviceVars, children, context, strategy, multi>>

---------------------------------------------------------------------------
(* Part G: CargaDescargaStrategy's cycle tracking                          *)
(* (strategies/carga_descarga/carga_descarga_strategy.py), driven by the   *)
(* trades of the exchange of Part B.  The strategy trades one lot at a     *)
(* time with market orders; the candle's timestamp is its number, and      *)
(* strategy.stamps[i] is Trade.timestamp of the exchange's i-th trade.     *)

MaxCycleTrades == 7         \* trades executed in one run
MaxCycleCandles == 3        \* base candles that arrive after the first one

\* the close of the k-th candle of the replayed data
CycleClose(k) == IF k % 2 = 0 THEN 1 ELSE 2

\* CargaDescargaStrategy.__init__ (lines 142-146) on the first candle
StrategyIdle ==
    [ timestamp |-> 0,
      current_cycle_start |-> NoStamp,
      opened_by |-> 0,        \* number of the trade that started the cycle in progress
      long_trades |-> 0, short_trades |-> 0,
      long_max_loads |-> 0, short_max_loads |-> 0,
      stamps |-> <<>>,
      cycles |-> <<>> ]

\* Position.get_load_count (entities.py:133-143) with a smallest trade of one lot
RECURSIVE GetLoadCount(_)
GetLoadCount(amount) == IF amount < 1 THEN 0 ELSE 1 + GetLoadCount(amount \div 2)

\* sum(t.realized_pnl for t in cycle_trades) over the trades whose timestamp
\* lies in [start, end] (lines 887-900)
RECURSIVE CyclePnl(_, _, _, _, _)
CyclePnl(trades, stamps, start, end, i) ==
    IF i > Len(trades) THEN Dec(0)
    ELSE RAdd(IF start <= stamps[i] /\ stamps[i] <= end
              THEN trades[i].realized_pnl ELSE Dec(0),
              CyclePnl(trades, stamps, start, end, i + 1))

\* _complete_cycle (lines 877-930): opened_by and closed_by are the numbers
\* of the trades being handled when the cycle was started and completed
CompleteCycle(s, trades, end_timestamp) ==
    IF s.current_cycle_start = NoStamp THEN s
    ELSE [s EXCEPT
            !.cycles = Append(@,
                [ start_timestamp |-> s.current_cycle_start,
                  end_timestamp |-> end_timestamp,
                  total_pnl |-> CyclePnl(trades, s.stamps, s.current_cycle_start,
                                         end_timestamp, 1),
                  long_trades_count |-> s.long_trades,
                  short_trades_count |-> s.short_trades,
                  long_max_loads |-> s.long_max_loads,
                  short_max_loads |-> s.short_max_loads,
                  opened_by |-> s.opened_by,
                  closed_by |-> Len(trades) ]),
            !.current_cycle_start = NoStamp,
            !.long_trades = 0, !.short_trades = 0,
            !.long_max_loads = 0, !.short_max_loads = 0]

\* _track_cycle_state (lines 822-866), called from on_trade: positions are
\* what exchange.get_position returns while the trade is being dispatched,
\* trades what exchange.get_trades returns (the trade included)
TrackCycleState(s, positions, trades, trade) ==
    LET current_long_amount == positions.long.amount
        current_short_amount == positions.short.amount
        flat == current_long_amount = 0 /\ current_short_amount = 0
        Counted(s1) ==
            [s1 EXCEPT
               !.long_trades = IF trade.position_side = "long" THEN @ + 1 ELSE @,
               !.short_trades = IF trade.position_side = "long" THEN @ ELSE @ + 1,
               !.long_max_loads = IF current_long_amount > 0
                                  THEN Max(@, GetLoadCount(Abs(current_long_amount)))
                                  ELSE @,
               !.short_max_loads = IF current_short_amount < 0
                                   THEN Max(@, GetLoadCount(Abs(current_short_amount)))
                                   ELSE @]
        Tracked(s1) == IF flat THEN CompleteCycle(Counted(s1), trades, s1.timestamp)
                       ELSE Counted(s1)
    IN IF flat /\ s.current_cycle_start = NoStamp
       THEN [s EXCEPT !.current_cycle_start = s.timestamp,     \* _start_new_cycle
                      !.opened_by = Len(trades),
                      !.long_trades = 0, !.short_trades = 0,
                      !.long_max_loads = 0, !.short_max_loads = 0]
       ELSE IF s.current_cycle_start # NoStamp THEN Tracked(s)
       ELSE s

\* the strategy sends a market order of one lot; Exchange._complete_order
\* appends the trade and dispatches it to on_trade before it updates the
\* position (exchange.py lines 371-386)
CycleTrade(position_side, side) ==
    /\ AgentsIdle
    /\ xch.ready
    /\ Len(xch.trades) < MaxCycleTrades
    /\ xch.positions[position_side].amount = 0
         <=> IsOpening([position_side |-> position_side, side |-> side])
    /\ NewOrderRejection(xch, position_side, side, "market", 1, NoPrice) = "none"
    /\ xch' = NewOrderCall(xch, position_side, side, "market", 1, NoPrice)
    /\ strategy' = TrackCycleState(
                       [strategy EXCEPT !.stamps = Append(@, strategy.timestamp)],
                       xch.positions, xch'.trades, xch'.trades[Len(xch'.trades)])
    /\ UNCHANGED <<agentVars, serviceVars, registry, children, context, multi>>

\* the simulator delivers the next base candle; no order is resting
CycleCandle ==
    /\ AgentsIdle
    /\ xch.ready
    /\ strategy.timestamp < MaxCycleCandles
    /\ xch' = [Begin(xch) EXCEPT !.candle =
                  [low |-> CycleClose(strategy.timestamp + 1),
                   close |-> CycleClose(strategy.timestamp + 1),
                   high |-> CycleClose(strategy.timestamp + 1)]]
    /\ strategy' = [strategy EXCEPT !.timestamp = @ + 1]
    /\ UNCHANGED <<agentVars, serviceVars, registry, children, context, multi>>

---------------------------------------------------------------------------
(* Part H: the logging context and the orchestrator's life cycle *)
(* infrastructure/logging/context.py, agents/orchestrator_agent.py *)

MaxContextDepth == 2

\* a thread-local attribute that was never set, or was deleted by clear()
Unset == "<unset>"

ContextRunIds == {Unset, "", OrchRunId}
ContextAgents == {Unset, "orchestrator", "simulator"}
ContextFlows == {Unset, "cleanup"}

\* Python truthiness of a context value: None and the empty string are false
Truthy(v) == v # Unset /\ v # ""

\* LoggingContext after import: no attribute set, no block entered.
\* frames holds, for every block that is open, the locals of its generator
\* (old_run_id, old_agent, old_flow) and the context on entry.
ContextIdle ==
    [run_id |-> Unset, agent |-> Unset, flow |-> Unset, frames |-> <<>>, left |-> "none"]

\* LoggingContext.get_context: the dictionary of the values that are truthy
GetContext(c) ==
    LET raw == [run_id |-> c.run_id, agent |-> c.agent, flow |-> c.flow]
    IN [k \in {key \in {"run_id", "agent", "flow"} : Truthy(raw[key])} |-> raw[k]]

\* LoggingContext.clear: delete the three attributes
Clear(c) == [c EXCEPT !.run_id = Unset, !.agent = Unset, !.flow = Unset]

\* LoggingContext.set_run_id, set_agent, set_flow
SetRunId(c, run_id) == [c EXCEPT !.run_id = run_id]
SetAgent(c, agent) == [c EXCEPT !.agent = agent]
SetFlow(c, flow) == [c EXCEPT !.flow = flow]

\* logging_context up to its yield: save the three values, set the truthy
\* arguments
LoggingContextEnter(c, run_id, agent, flow) ==
    LET frame == [old_run_id |-> c.run_id, old_agent |-> c.agent, old_flow |-> c.flow,
                  entered |-> GetContext(c)]
        saved == [c EXCEPT !.frames = Append(@, frame)]
        with_run == IF Truthy(run_id) THEN SetRunId(saved, run_id) ELSE saved
        with_agent == IF Truthy(agent) THEN SetAgent(with_run, agent) ELSE with_run
    IN IF Truthy(flow) THEN SetFlow(with_agent, flow) ELSE with_agent

\* the saved values that are truthy are set again
RestoreOld(c, frame) ==
    [c EXCEPT !.run_id = IF Truthy(frame.old_run_id) THEN frame.old_run_id ELSE @,
              !.agent = IF Truthy(frame.old_agent) THEN frame.old_agent ELSE @,
              !.flow = IF Truthy(frame.old_flow) THEN frame.old_flow ELSE @]

\* the finally clause without its clear(): a value set by the block survives
\* where nothing had been set before
LoggingContextExit_NoClear(c) ==
    LET frame == c.frames[Len(c.frames)]
    IN RestoreOld([c EXCEPT !.frames = SubSeq(@, 1, Len(@) - 1)], frame)

\* logging_context's finally clause, run when the body returns or raises
LoggingContextExit(c) ==
    LET frame == c.frames[Len(c.frames)]
    IN RestoreOld(Clear([c EXCEPT !.frames = SubSeq(@, 1, Len(@) - 1)]), frame)

\* a with-block whose body leaves the context alone
Block(c, run_id, agent, flow) ==
    LoggingContextExit(LoggingContextEnter(c, run_id, agent, flow))

\* with logging_context(...): entered by a handler
ContextEnter(run_id, agent, flow) ==
    /\ Len(context.frames) < MaxContextDepth
    /\ context' = [LoggingContextEnter(context, run_id, agent, flow) EXCEPT !.left = "none"]
    /\ UNCHANGED <<agentVars, xch, serviceVars, registry, children, strategy, multi>>

\* the innermost block is left, by return or by an exception of its body
ContextExit(how) ==
    /\ context.frames # <<>>
    /\ context' = [LoggingContextExit(context) EXCEPT !.left = how]
    /\ UNCHANGED <<agentVars, xch, serviceVars, registry, children, strategy, multi>>

\* BaseAgent.set_context: the three setters, outside of any with-block
\* bookkeeping
ContextSet(run_id, agent, flow) ==
    /\ context' = [SetFlow(SetAgent(SetRunId(context, run_id), agent), flow)
                      EXCEPT !.left = "none"]
    /\ UNCHANGED <<agentVars, xch, serviceVars, registry, children, strategy, multi>>

\* LoggingContext.clear() called by the body
ContextClear ==
    /\ context' = [Clear(context) EXCEPT !.left = "none"]
    /\ UNCHANGED <<agentVars, xch, serviceVars, registry, children, strategy, multi>>

\* OrchestratorAgent(): no child agent yet
ChildrenIdle ==
    [created |-> <<>>, closed |-> <<>>, simulator |-> FALSE, runner |-> FALSE]

\* the agents in the order of the assignments of initialize()
CreationOrder == <<"simulator", "backtest", "evaluator", "optimizer">>

\* the agents in the order of the close() calls of close()
CloseOrder == <<"simulator", "backtest", "evaluator", "optimizer">>

\* the with-blocks of the child agents' methods, one after the other
RECURSIVE ChildBlocks(_, _, _)
ChildBlocks(c, agents, flow) ==
    IF agents = <<>> THEN c
    ELSE ChildBlocks(Block(c, OrchRunId, Head(agents), flow), Tail(agents), flow)

\* SimulatorAgent.close and BacktestAgent.close enter their block only when
\* they hold a simulator or a runner
ClosingBlocks(ch) ==
    SelectSeq(CloseOrder,
              LAMBDA a : /\ a = "simulator" => ch.simulator
                         /\ a = "backtest" => ch.runner)

\* OrchestratorAgent.initialize: the four child agents are created and
\* initialised inside the "init" block
OrchInitialize ==
    /\ children' = [created |-> CreationOrder, closed |-> <<>>,
                    simulator |-> TRUE, runner |-> FALSE]
    /\ context' = [LoggingContextExit(
                       ChildBlocks(LoggingContextEnter(context, OrchRunId, "orchestrator", "init"),
                                   CreationOrder, "init"))
                      EXCEPT !.left = "none"]
    /\ UNCHANGED <<agentVars, xch, serviceVars, registry, strategy, multi>>

\* BacktestAgent.execute_backtest: the agent keeps the runner it built
OrchExecute ==
    /\ children.created # <<>>
    /\ children' = [children EXCEPT !.runner = TRUE]
    /\ context' = [Block(context, OrchRunId, "backtest", "execute_backtest")
                      EXCEPT !.left = "none"]
    /\ UNCHANGED <<agentVars, xch, serviceVars, registry, strategy, multi>>

\* OrchestratorAgent.close: every child agent that exists is closed inside
\* the "cleanup" block
OrchClose ==
    /\ children' = [children EXCEPT
                       !.closed = IF children.created = <<>> THEN <<>> ELSE CloseOrder,
                       !.simulator = FALSE,
                       !.runner = FALSE]
    /\ context' = [LoggingContextExit(
                       ChildBlocks(LoggingContextEnter(context, OrchRunId, "orchestrator", "cleanup"),
                                   IF children.created = <<>> THEN <<>> ELSE ClosingBlocks(children),
                                   "cleanup"))
                      EXCEPT !.left = "none"]
    /\ UNCHANGED <<agentVars, xch, serviceVars, registry, strategy, multi>>

---------------------------------------------------------------------------
(* Part I: MarketDataSimulator with several symbols (simulator.py).        *)
(* start_time, end_time, min_candles and current_time belong to the        *)
(* simulator; the candle table, endeds, last_candle and the listeners are  *)
(* kept per symbol.                                                        *)

MultiSymbols == {"btcusdt", "ethusdt"}

\* MarketDataSimulator.__init__: no symbol configured, every table empty
MultiIdle ==
    [shared |-> SimNew({}, "complete"),
     symbols |-> <<>>,
     per |-> [symbol \in MultiSymbols |-> SimNew({}, "complete")]]

\* the simulator as _next_candle and add_complete_candle_listener see it
\* while they work on one symbol
SymbolView(m, symbol) ==
    [m.per[symbol] EXCEPT !.start_time = m.shared.start_time,
                          !.end_time = m.shared.end_time,
                          !.min_candles = m.shared.min_candles,
                          !.current_time = m.shared.current_time,
                          !.tick = m.shared.tick,
                          !.raised = NoSimRaise]

\* what the work on one symbol leaves in the simulator's own fields
SharedAfter(m, view) ==
    [m.shared EXCEPT !.start_time = view.start_time,
                     !.current_time = view.current_time,
                     !.raised = view.raised]

\* add_complete_candle_listener(symbol, timeframe, listener) (lines 330-343)
MultiAddListener(m, symbol, timeframe) ==
    LET Registered(view) ==
            IF view.raised # NoSimRaise
            THEN [m EXCEPT !.shared.raised = view.raised]
            ELSE [m EXCEPT !.shared = SharedAfter(m, view),
                           !.per[symbol] = view,
                           !.symbols = IF \E i \in 1..Len(m.symbols) : m.symbols[i] = symbol
                                       THEN @ ELSE Append(@, symbol)]
    IN Registered(AddCompleteCandleListener(SymbolView(m, symbol), timeframe))

\* next_candle (lines 144-182): for symbol, timeframes in
\* self.symbols_timeframes.items(), from position i of the dict on; an
\* exception leaves the loop
RECURSIVE MultiNextCandle(_, _)
MultiNextCandle(m, i) ==
    IF i > Len(m.symbols) THEN [m EXCEPT !.shared.tick = @ + 1]
    ELSE LET Stepped(symbol, view) ==
                 IF view.raised # NoSimRaise
                 THEN [m EXCEPT !.shared = [SharedAfter(m, view) EXCEPT !.tick = @ + 1],
                                !.per[symbol] = view]
                 ELSE MultiNextCandle([m EXCEPT !.shared = SharedAfter(m, view),
                                                !.per[symbol] = view], i + 1)
         IN Stepped(m.symbols[i], NextCandle(SymbolView(m, m.symbols[i])))

\* ---- actions of the simulator's caller
MultiSetTimes(start, end, min_candles) ==
    /\ multi.shared.set_times_calls = 0
    /\ multi' = [multi EXCEPT !.shared = SetTimes(@, start, end, min_candles)]
    /\ UNCHANGED <<agentVars, xch, serviceVars, registry, children, context, strategy>>

MultiSubscribe(symbol) ==
    /\ multi.shared.tick = 0
    /\ \A i \in 1..Len(multi.symbols) : multi.symbols[i] # symbol
    /\ multi' = MultiAddListener(multi, symbol, "1m")
    /\ UNCHANGED <<agentVars, xch, serviceVars, registry, children, context, strategy>>

MultiTick ==
    /\ multi.symbols # <<>>
    /\ multi.shared.tick < MaxTicks
    /\ multi' = MultiNextCandle([multi EXCEPT !.shared.raised = NoSimRaise], 1)
    /\ UNCHANGED <<agentVars, xch, serviceVars, registry, children, context, strategy>>

---------------------------------------------------------------------------
(* Specifications *)

\* State after SchedulerAgent(config).initialize(): counters zero, not running,
\* episodic memory holding "initialized" and "config", orchestrator idle.
AgentInit ==
    /\ active_backtests = {}
    /\ completed_backtests = {}
    /\ orch_call = NoCall
    /\ config \in Configs
    /\ orchestrator \in {"own", "injected"}
    /\ running = FALSE
    /\ cycle_count = 0
    /\ executions_today = 0
    /\ last_reset_date = NoDay
    /\ episodic_memory = {"initialized", "config"}
    /\ current_period_index = 0
    /\ backtest_count_in_period = 0
    /\ passed_backtests_in_period = 0
    /\ period_parameter_combinations = EmptyMap
    /\ events = 0
    /\ now = Now0
    /\ loop_pc = "idle"
    /\ cycle_pc = "idle"
    /\ cycle = NoCycle



\* the components that take no part in a specification stay as constructed
ModulesIdle ==
    /\ registry = RegistryIdle
    /\ children = ChildrenIdle
    /\ context = ContextIdle
    /\ strategy = StrategyIdle
    /\ multi = MultiIdle

\* A stand-alone orchestrator driven by sequential callers.
ServicesIdle ==
    /\ sim = SimIdle
    /\ evaluator = EvaluatorIdle
    /\ optimizer = OptimizerIdle
    /\ dispatcher = DispatcherIdle

SchedInit == AgentInit /\ xch = XchIdle /\ ServicesIdle /\ ModulesIdle

OrchInit ==
    /\ SchedInit
    /\ orchestrator = "own"
    /\ config.backtests_per_period = 1
    /\ config.min_passed_backtests_per_period = 1
    /\ config.auto_reset_memory

OrchNext ==
    \E reqId \in RunIds, outcome \in BacktestOutcomes : OrchRunBacktest(reqId, outcome)

OrchSpec == OrchInit /\ [][OrchNext]_vars

SchedNext ==
    \/ Start
    \/ LoopHead
    \/ \E outcome \in BacktestOutcomes, exec \in ExecMillis : LoopCall(outcome, exec)
    \/ LoopAfterCycle
    \/ Stop
    \/ \E outcome \in BacktestOutcomes, exec \in ExecMillis : DirectRunCycle(outcome, exec)
    \/ DirectResetDailyMemory
    \/ \E ev \in Evaluations \cup {[passed |-> FALSE, recommendation |-> "raises"]} :
          EvaluateStep(ev)
    \/ CheckPeriod

SchedSpec == SchedInit /\ [][SchedNext]_vars

ExchInit ==
    /\ AgentInit
    /\ orchestrator = "own"
    /\ config.backtests_per_period = 1
    /\ config.min_passed_backtests_per_period = 1
    /\ config.auto_reset_memory
    /\ xch \in {Configured(fees, listener, [low |-> 1, close |-> 1, high |-> 1]) :
                    fees \in FeeSchedules, listener \in TradeListeners}
    /\ ServicesIdle
    /\ ModulesIdle

ExchNext ==
    \/ \E position_side \in {"long", "short"}, side \in {"buy", "sell"},
          type \in {"limit", "market"}, quantity \in Quantities,
          price \in Prices \cup {NoPrice} :
            NewOrder(position_side, side, type, quantity, price)
    \/ \E id \in 1..MaxOrders, type \in {"limit", "market"},
          quantity \in Quantities, price \in Prices :
            ModifyOrder(id, type, quantity, price)
    \/ \E id \in 1..MaxOrders : CancelOrder(id)
    \/ \E c \in Candles : CandleUpdate(c)

ExchSpec == ExchInit /\ [][ExchNext]_vars

\* candles.db as the simulator finds it: empty, holding the two base candles
\* at start_time and one minute later, or holding every candle of the source
SimStores == {{},
              {<<"1m", SimT0>>, <<"1m", SimT0 + ONE_MINUTE_MS>>},
              UNION {SourceCandles("complete", tf, 0) : tf \in SimTimeframes}}

\* A fresh simulator over a given store and data source; the agents stay idle.
SimInit ==
    /\ AgentInit
    /\ orchestrator = "own"
    /\ config.backtests_per_period = 1
    /\ config.min_passed_backtests_per_period = 1
    /\ config.auto_reset_memory
    /\ xch = XchIdle
    /\ sim \in {SimNew(store, source) : store \in SimStores, source \in SourceModes}
    /\ evaluator = EvaluatorIdle
    /\ optimizer = OptimizerIdle
    /\ dispatcher = DispatcherIdle
    /\ ModulesIdle

SimNext ==
    \/ \E start \in SimStarts, end \in SimEnds, min_candles \in SimMinCandles :
          SimSetTimes(start, end, min_candles)
    \/ \E timeframes \in TimeframeLists : SimAddSymbol(timeframes)
    \/ \E timeframe \in SimTimeframes : SimAddListener(timeframe)
    \/ SimNextCandle

SimSpec == SimInit /\ [][SimNext]_vars

\* Fresh dispatchers; everything else stays idle.
DispatchInit ==
    /\ AgentInit
    /\ orchestrator = "own"
    /\ config.backtests_per_period = 1
    /\ config.min_passed_backtests_per_period = 1
    /\ config.auto_reset_memory
    /\ xch = XchIdle
    /\ ServicesIdle
    /\ ModulesIdle

DispatchNext ==
    \/ \E event \in EventKinds, kind \in ListenerKinds : AddListener(event, kind)
    \/ \E event \in EventKinds : Dispatch(event)

DispatchSpec == DispatchInit /\ [][DispatchNext]_vars

\* An initialized evaluator that has not evaluated anything yet.
EvalInit == DispatchInit

EvalNext ==
    \E requested \in KpiRequests, metrics \in MetricInputs :
        /\ \A k \in KpiNames : metrics[k] \in MetricValues[k]
        /\ Evaluate(requested, metrics)

EvalSpec == EvalInit /\ [][EvalNext]_vars

\* An initialized optimizer that has not been called yet.
OptInit == DispatchInit

OptNext ==
    \E llm \in LlmModes, suggested \in SuggestedRsi, space \in ParameterSpaces,
       latest \in LatestResults, backtest_config \in BacktestConfigs :
        /\ llm # "responds" => suggested = NoParam
        \* the validation of an answer reads neither the latest result nor
        \* backtest_config.rsi_limits
        /\ llm = "responds" => latest = "none" /\ backtest_config = NoParam
        /\ Optimize(llm, suggested, space, latest, backtest_config)

OptSpec == OptInit /\ [][OptNext]_vars

\* A fresh repository on an empty directory.
RegistryInit == DispatchInit

RegistryNext ==
    \/ \E result_type \in ResultTypes, run_id \in RegistryRunIds, data \in RegistryPayloads :
          RegistryStore(result_type, run_id, data)
    \/ \E run_id \in RegistryRunIds : RegistryRetrieve(run_id)

RegistrySpec == RegistryInit /\ [][RegistryNext]_vars

\* A backtest whose strategy listens to the exchange's trades, on the first candle.
CycleInit ==
    /\ AgentInit
    /\ orchestrator = "own"
    /\ config.backtests_per_period = 1
    /\ config.min_passed_backtests_per_period = 1
    /\ config.auto_reset_memory
    /\ xch \in {Configured(fees, "strategy",
                           [low |-> CycleClose(0), close |-> CycleClose(0),
                            high |-> CycleClose(0)]) : fees \in FeeSchedules}
    /\ ServicesIdle
    /\ ModulesIdle

CycleNext ==
    \/ \E position_side \in {"long", "short"}, side \in {"buy", "sell"} :
          CycleTrade(position_side, side)
    \/ CycleCandle

CycleSpec == CycleInit /\ [][CycleNext]_vars

\* A freshly constructed orchestrator whose handlers run under the logging
\* context of their callers.
LifecycleInit == DispatchInit

LifecycleNext ==
    \/ \E run_id \in ContextRunIds, agent \in ContextAgents, flow \in ContextFlows :
           ContextEnter(run_id, agent, flow)
    \/ \E how \in {"normal", "exception"} : ContextExit(how)
    \/ \E run_id \in ContextRunIds, agent \in ContextAgents, flow \in ContextFlows :
           ContextSet(run_id, agent, flow)
    \/ ContextClear
    \/ OrchInitialize
    \/ OrchExecute
    \/ OrchClose

LifecycleSpec == LifecycleInit /\ [][LifecycleNext]_vars

\* Cycles beyond MaxCycles are followed without their counters and clock:
\* cycle_count, executions_today and now keep the values of the last cycle
\* that was counted.  The orchestrator already holds max_concurrent_backtests
\* requests, so run_backtest raises MAX_CONCURRENT_BACKTESTS (lines 77-83),
\* its cleanup finds no entry under the new cycle's id, and the exception
\* leaves run_cycle.
LoopCallRejected ==
    /\ loop_pc = "call"
    /\ cycle_pc = "idle"
    /\ cycle_count = MaxCycles
    /\ orchestrator = "own"
    /\ Cardinality(active_backtests) >= MAX_CONCURRENT_BACKTESTS
    /\ loop_pc' = "in_cycle"
    /\ cycle' = [cycle EXCEPT !.phase = "error"]
    /\ UNCHANGED <<active_backtests, completed_backtests, orch_call, config, orchestrator,
                   running, cycle_count, executions_today, last_reset_date, episodic_memory,
                   current_period_index, backtest_count_in_period,
                   passed_backtests_in_period, period_parameter_combinations, events, now,
                   cycle_pc, xch,
                   sim, evaluator, optimizer, dispatcher,
                   moduleVars>>

\* the sleep after such a cycle (lines 112-120), the clock not followed
LoopAfterUncountedCycle ==
    /\ loop_pc = "in_cycle"
    /\ cycle_pc = "idle"
    /\ cycle_count = MaxCycles
    /\ loop_pc' = LoopOnCycleEnd(cycle.phase)
    /\ UNCHANGED <<active_backtests, completed_backtests, orch_call, config, orchestrator,
                   running, cycle_count, executions_today, last_reset_date, episodic_memory,
                   current_period_index, backtest_count_in_period,
                   passed_backtests_in_period, period_parameter_combinations, events, now,
                   cycle_pc, cycle, xch,
                   sim, evaluator, optimizer, dispatcher,
                   moduleVars>>

\* The scheduler's loop left to itself: start() is called once, nobody calls
\* stop(), every backtest the backtest agent executes completes and every
\* evaluation passes.  The loop is a running thread of a sequential program,
\* so a step that can be taken is taken (weak fairness of the next-state
\* relation).
SchedLiveInit ==
    /\ SchedInit
    /\ config.min_passed_backtests_per_period <= config.backtests_per_period

SchedLiveNext ==
    \/ Start
    \/ LoopHead
    \/ \E exec \in ExecMillis : LoopCall("ok", exec)
    \/ LoopCallRejected
    \/ (cycle_count < MaxCycles /\ LoopAfterCycle)
    \/ LoopAfterUncountedCycle
    \/ EvaluateStep([passed |-> TRUE, recommendation |-> "promote"])
    \/ CheckPeriod

SchedLiveSpec == SchedLiveInit /\ [][SchedLiveNext]_vars /\ WF_vars(SchedLiveNext)

\* candles.db before the replay: empty, or holding every 1m candle of the
\* replayed window for the symbol
MultiStores == {{}, {<<"1m", SimT0 + k * ONE_MINUTE_MS>> : k \in 0..7}}

\* A simulator whose data source has every candle; only multi differs from
\* the idle state.
MultiInit ==
    /\ AgentInit
    /\ orchestrator = "own"
    /\ config.backtests_per_period = 1
    /\ config.min_passed_backtests_per_period = 1
    /\ config.auto_reset_memory
    /\ xch = XchIdle
    /\ ServicesIdle
    /\ registry = RegistryIdle
    /\ children = ChildrenIdle
    /\ context = ContextIdle
    /\ strategy = StrategyIdle
    /\ multi \in {[MultiIdle EXCEPT !.per = [symbol \in MultiSymbols |->
                                               SimNew(stores[symbol], "complete")]] :
                    stores \in [MultiSymbols -> MultiStores]}

MultiNext ==
    \/ \E start \in SimStarts, end \in SimEnds, min_candles \in SimMinCandles :
           MultiSetTimes(start, end, min_candles)
    \/ \E symbol \in MultiSymbols : MultiSubscribe(symbol)
    \/ MultiTick

MultiSpec == MultiInit /\ [][MultiNext]_vars

---------------------------------------------------------------------------
(* Part A: properties *)

\* C1: after any sequence of sequential run_backtest calls, a call whose
\* backtest ran to completion has returned and left active_backtests empty,
\* whatever run_id the request carried.
C1_ActiveEmptyAfterBacktest ==
    orch_call.executed => (orch_call.result = "returned" /\ active_backtests = {})

\* the step in which run_cycle takes its end-of-period decision
CheckStep == cycle_pc = "check" /\ cycle_pc' = "idle"

PeriodFull == backtest_count_in_period >= config.backtests_per_period
EnoughPassed == passed_backtests_in_period >= config.min_passed_backtests_per_period
AtLastPeriod == current_period_index = NumPeriods - 1

\* C2 (as stated): when backtest_count_in_period reaches backtests_per_period
\* the scheduler advances exactly one period if enough backtests passed and
\* otherwise resets to period 0; current_period_index increases in no other step.
C2_AdvanceOrReset ==
    [][ /\ (CheckStep /\ PeriodFull) =>
              IF EnoughPassed THEN current_period_index' = current_period_index + 1
                              ELSE current_period_index' = 0
        /\ (current_period_index' > current_period_index) =>
              (CheckStep /\ PeriodFull /\ EnoughPassed) ]_vars

\* C2 (amended): as C2, except that on the last period the index stays and a
\* promote_to_production event is emitted instead.
C2_AdvancePromoteOrReset ==
    [][ /\ (CheckStep /\ PeriodFull) =>
              IF EnoughPassed
              THEN IF AtLastPeriod
                   THEN /\ current_period_index' = current_period_index
                        /\ events' = events + 1
                   ELSE current_period_index' = current_period_index + 1
              ELSE current_period_index' = 0
        /\ (current_period_index' > current_period_index) =>
              /\ CheckStep /\ PeriodFull /\ EnoughPassed
              /\ current_period_index' = current_period_index + 1 ]_vars

C2_Witness ==
    /\ cycle_pc = "idle"
    /\ cycle.phase = "advanced"
    /\ current_period_index = 1
    /\ backtest_count_in_period = 0

\* C3: for every period index, no two ranges stored in
\* period_parameter_combinations overlap by more than max_overlap_percentage
\* of their duration.
C3_StoredRangesOverlapBounded ==
    \A p \in DOMAIN period_parameter_combinations :
        LET ranges == period_parameter_combinations[p] IN
        \A i, j \in 1..Len(ranges) :
            i # j => OverlapWithin(ranges[i], ranges[j], config.max_overlap_percentage)

\* a run_cycle that ran to its end with an evaluation recommending optimize
AfterOptimizeCycle ==
    /\ cycle_pc = "idle"
    /\ cycle.evaluation.recommendation = "optimize"
    /\ cycle.phase \in {"completed", "advanced", "promoted", "period_failed"}

\* C4 (as stated): after a run_cycle whose evaluation recommends optimize the
\* scheduler is at period 0, no ranges are stored, passed = 0 and count = 1.
C4_AfterOptimize ==
    AfterOptimizeCycle =>
        /\ current_period_index = 0
        /\ period_parameter_combinations = EmptyMap
        /\ passed_backtests_in_period = 0
        /\ backtest_count_in_period = 1

\* C4 (amended): as C4, but the count is 1 only when backtests_per_period > 1;
\* with backtests_per_period = 1 the one-backtest period is judged at once,
\* fails, and the count is back to 0.
C4_AfterOptimizeAmended ==
    AfterOptimizeCycle =>
        /\ current_period_index = 0
        /\ period_parameter_combinations = EmptyMap
        /\ passed_backtests_in_period = 0
        /\ backtest_count_in_period = (IF config.backtests_per_period > 1 THEN 1 ELSE 0)

C4_Witness ==
    /\ AfterOptimizeCycle
    /\ cycle.period = 1
    /\ config.backtests_per_period > 1
    /\ backtest_count_in_period = 1

\* C5: when the count of the last period reaches backtests_per_period with
\* enough passed backtests, a promote_to_production event is emitted and
\* running becomes false; the loop that ran this cycle keeps running false and
\* leaves without starting another cycle.
C5_PromoteStopsLoop ==
    [][ /\ (CheckStep /\ PeriodFull /\ EnoughPassed /\ AtLastPeriod) =>
              (events' = events + 1 /\ ~running' /\ cycle'.phase = "promoted")
        /\ (cycle.phase = "promoted" /\ loop_pc \in {"in_cycle", "head"} /\ ~running) =>
              (~running' /\ cycle_count' = cycle_count /\ loop_pc' \in {"head", "idle"}) ]_vars

C5_Witness ==
    /\ cycle.phase = "promoted"
    /\ loop_pc = "head"
    /\ ~running
    /\ events = 1

\* C6: between cycles, current_period_index lies in [0, |incremental_periods|)
\* and neither counter exceeds backtests_per_period.
C6_CountersWithinBounds ==
    cycle_pc = "idle" =>
        /\ current_period_index \in 0..(NumPeriods - 1)
        /\ backtest_count_in_period <= config.backtests_per_period
        /\ passed_backtests_in_period <= config.backtests_per_period

---------------------------------------------------------------------------
(* Part B: properties *)

FilledEvent(e, id) == e.kind = "order" /\ e.id = id /\ e.info = "filled"

\* C7: for every fill, listeners observe the order event of the filled order
\* first, then the trade event, then the position event.
C7_OrderTradePosition ==
    LET d == xch.dispatched
    IN  \A i \in 1..Len(d) :
            d[i].kind = "trade" =>
                /\ \E j \in 1..(i - 1) : FilledEvent(d[j], d[i].id)
                /\ \E k \in (i + 1)..Len(d) : d[k].kind = "position"

TradedIds(x) == {x.dispatched[i].id : i \in {k \in 1..Len(x.dispatched) :
                                               x.dispatched[k].kind = "trade"}}

\* C8: on each base-timeframe candle, every order that was resting when the
\* candle arrived and whose fill condition holds for that candle is filled
\* during that candle's update, however many orders are resting.  (Stated
\* for an exchange whose trade events nobody listens to, so that no order
\* leaves the book during the update other than by being filled.)
C8_AllFillableOrdersFilled ==
    [][\A c \in Candles :
          (xch.trade_listener = "none" /\ CandleUpdate(c)) =>
              \A i \in 1..Len(xch.orders) :
                  FillCondition(xch.orders[i], c) =>
                      xch.orders[i].order_id \in TradedIds(xch')]_vars

\* C9: after any sequence of new_order, modify_order, cancel_order calls and
\* candle updates, the long position's amount is >= 0 and the short
\* position's amount is <= 0.
C9_PositionSigns ==
    /\ xch.positions.long.amount >= 0
    /\ xch.positions.short.amount <= 0

\* C10: in every reachable exchange state, a position whose amount is 0 has
\* entry_price 0 and break_even 0.
C10_FlatPositionZeroed ==
    \A s \in {"long", "short"} :
        xch.positions[s].amount = 0 =>
            /\ xch.positions[s].entry_price = Dec(0)
            /\ xch.positions[s].break_even = Dec(0)

\* a long position was opened at a price and its latest trade closed it
C10_Witness ==
    /\ Len(xch.trades) >= 2
    /\ LET first == xch.trades[1]
           last == xch.trades[Len(xch.trades)]
       IN  /\ first.position_side = "long" /\ first.side = "buy"
           /\ last.position_side = "long" /\ last.side = "sell"
           /\ last.closes_position_completely
    /\ xch.positions.long.amount = 0

RLe(a, b) == ~RLt(b, a)

BothFlat(x) == x.positions.long = Flat /\ x.positions.short = Flat

\* C11: after each base candle has been processed, if balance plus worst-case
\* unrealized PnL (low for longs, high for shorts) is <= 0, then the balance
\* is 0 and both positions are flat.  (Stated for a long position that is
\* long and a short position that is short, before and after the candle.)
SignsHold(x) == x.positions.long.amount >= 0 /\ x.positions.short.amount <= 0

C11_LiquidatedAfterCandle ==
    [][\A c \in Candles :
          (SignsHold(xch) /\ SignsHold(xch') /\ CandleUpdate(c)) =>
              (RLe(RealBalance(xch', c), Dec(0)) =>
                  (xch'.balance = Dec(0) /\ BothFlat(xch')))]_vars

\* C12: the exchange's internal candle listener is subscribed exactly while
\* at least one resting order exists: it is released as soon as the last
\* resting order is filled or cancelled.
C12_SubscribedIffResting ==
    xch.subscribed <=> (Len(xch.orders) > 0)

\* C13: once an order's status is filled or canceled it never changes again
\* and no further order event is dispatched for it, also when a trade
\* listener cancels orders during the fill.
C13_TerminalStatus ==
    LET d == xch.dispatched
    IN  \A i, j \in 1..Len(d) :
            (/\ i < j
             /\ d[i].kind = "order" /\ d[i].info \in {"filled", "canceled"}
             /\ d[j].kind = "order") => d[j].id # d[i].id

NewOrderErrors ==
    { "Market orders must not specify a price",
      "Limit orders must specify a price",
      "Insufficient balance",
      "Max notional exceeded" }

\* C14: a new_order call that is rejected (market order with a preset price,
\* limit order without a price, insufficient balance, max notional exceeded)
\* raises and leaves orders, trades, positions, balance and the candle
\* listener subscription unchanged.
C14_RejectedNewOrderChangesNothing ==
    [][xch'.raised.call = "new_order" =>
          /\ xch'.raised.error \in NewOrderErrors
          /\ xch'.orders = xch.orders
          /\ xch'.trades = xch.trades
          /\ xch'.positions = xch.positions
          /\ xch'.balance = xch.balance
          /\ xch'.subscribed = xch.subscribed
          /\ xch'.next_id = xch.next_id]_vars

\* an opening order was refused for its notional on an exchange that holds a
\* long position
C14_Witness ==
    /\ xch.raised.call = "new_order"
    /\ xch.raised.error = "Max notional exceeded"
    /\ xch.positions.long.amount > 0

RECURSIVE SumFrom(_, _)
\* the sum of amounts[k] for k in i..Len(amounts)
SumFrom(amounts, i) ==
    IF i > Len(amounts) THEN Dec(0)
    ELSE RAdd(amounts[i], SumFrom(amounts, i + 1))

RealizedPnl(t) == t.realized_pnl
OpeningCommission(t) == IF IsOpening(t) THEN RAbs(t.commission) ELSE Dec(0)

\* C15: at the end of any backtest, the sum of realized_pnl over all trades
\* equals total_return (final balance minus initial balance) plus the sum of
\* the commissions of the opening trades, within 0.01.
C15_PnlConsistent ==
    xch.ready =>
        LET n == Len(xch.trades)
            sum_realized ==
                SumFrom([k \in 1..n |-> RealizedPnl(xch.trades[k])], 1)
            opening_commissions ==
                SumFrom([k \in 1..n |-> OpeningCommission(xch.trades[k])], 1)
            total_return == RSub(xch.balance, Dec(InitialBalance))
            expected_return == RAdd(total_return, opening_commissions)
        IN  RLe(RAbs(RSub(sum_realized, expected_return)), Rat(1, 100))

---------------------------------------------------------------------------
(* Part A: properties, continued *)

\* C16: if run_backtest raises at any point after registering the request,
\* no entry for that request remains in active_backtests once the exception
\* has left run_backtest.
C16_NoEntryAfterError ==
    orch_call.result \in {"raised", "KeyError"} =>
        orch_call.run_id \notin active_backtests

\* C17: an exception raised inside run_cycle never terminates the scheduler's
\* main loop: after a cycle that raised, the loop is back at its head, and
\* the loop is left only when running is false.
C17_LoopSurvivesCycleErrors ==
    [][/\ (loop_pc = "in_cycle" /\ cycle_pc = "idle" /\ cycle.phase = "error"
              /\ loop_pc' # loop_pc) => loop_pc' = "head"
       /\ (loop_pc # "idle" /\ loop_pc' = "idle") => ~running]_vars

\* run_cycle has raised, the scheduler is still running and the loop is about
\* to call run_cycle again
C17_Witness ==
    loop_pc = "call" /\ running /\ cycle.phase = "error" /\ cycle_count >= 1

\* C18: the daily reset clears the per-period parameter-range maps and the
\* period counters, keeps the configuration snapshot, and records today as
\* the last reset day.
C18_DailyResetClears ==
    [][last_reset_date' # last_reset_date =>
          /\ period_parameter_combinations' = EmptyMap
          /\ backtest_count_in_period' = 0
          /\ passed_backtests_in_period' = 0
          /\ "config" \in episodic_memory'
          /\ last_reset_date' = now' \div DAY_MS]_vars

\* C19: when the current period already has a stored range, the next
\* backtest ends at the most recent stored range's start plus
\* max_overlap_percentage percent of the period duration (or at now minus one
\* minute when that would not be before now) and starts one duration earlier,
\* so that, unless clamped, it overlaps the previous backtest's range by
\* exactly that share of the duration.
C19_Duration == config.incremental_periods[current_period_index + 1] * DAY_MS

C19_Share == (C19_Duration \div 100) * config.max_overlap_percentage

C19_NextRangeOverlapsByShare ==
    [][(/\ cycle_count' = cycle_count + 1
        /\ PreviousRanges(period_parameter_combinations, current_period_index) # <<>>) =>
          LET most_recent ==
                  MostRecent(PreviousRanges(period_parameter_combinations, current_period_index))
              target == most_recent.start + C19_Share
              next == [start |-> cycle'.start, end |-> cycle'.end]
              previous == [start |-> most_recent.start,
                           end |-> most_recent.start + C19_Duration]
          IN /\ cycle'.end = IF target >= now THEN now - ONE_MINUTE_MS ELSE target
             /\ cycle'.start = cycle'.end - C19_Duration
             /\ target < now =>
                   /\ OverlapDuration(next, previous) = C19_Share
                   /\ OverlapDuration(next, most_recent) = C19_Share]_vars

C19_Witness ==
    LET ranges == PreviousRanges(period_parameter_combinations, current_period_index) IN
    /\ cycle_pc = "evaluate"
    /\ Len(ranges) >= 2
    /\ cycle.end = ranges[Len(ranges) - 1].start + C19_Share
    /\ cycle.start = cycle.end - C19_Duration
    /\ C19_Share > 0

\* C20: in every cycle whose evaluation recommends optimize, the scheduler
\* attempts an optimization through the orchestrator in that same cycle,
\* however many cycles have already run.
C20_OptimizeAlwaysAttempted ==
    cycle.evaluation.recommendation = "optimize" => cycle.optimize_attempted

---------------------------------------------------------------------------
(* Part C: properties *)

\* the dispatches of base-timeframe candles so far, oldest first
BaseLog ==
    SelectSeq(sim.log, LAMBDA e : e.timeframe = GetBaseTimeframe(sim.timeframes))

\* first replay, no warm-up, the store holds the base candles stamped
\* start_time and start_time + 60000
TwoStoredCandles ==
    /\ sim.set_times_calls = 1
    /\ sim.min_candles = 0
    /\ GetBaseTimeframe(sim.timeframes) = "1m"
    /\ {<<"1m", sim.start_time>>, <<"1m", sim.start_time + ONE_MINUTE_MS>>} \subseteq sim.store

\* C21: with stored base candles stamped start_time and start_time + 60000
\* and no warm-up, the first next_candle call dispatches the candle stamped
\* start_time and the second call the candle stamped start_time + 60000.
C21_FirstTwoCandles ==
    TwoStoredCandles =>
        /\ sim.tick >= 1 => (/\ Len(BaseLog) >= 1
                             /\ BaseLog[1].tick = 1
                             /\ BaseLog[1].timestamp = sim.start_time)
        /\ sim.tick >= 2 => (/\ Len(BaseLog) >= 2
                             /\ BaseLog[2].tick = 2
                             /\ BaseLog[2].timestamp = sim.start_time + ONE_MINUTE_MS)

\* C22: while the cursor is below start_time, next_candle dispatches nothing
\* to complete-candle listeners of any timeframe: every candle that reaches a
\* listener is dispatched while the simulator processes a base candle at or
\* after start_time.
C22_NoDispatchBelowStart ==
    \A i \in 1..Len(sim.log) :
        sim.log[i].delivered => sim.log[i].base >= sim.log[i].start_time

\* C23: within one tick the base-timeframe candle is dispatched before any
\* higher-timeframe candle, and the higher-timeframe candles follow in
\* ascending timeframe order, whatever order the timeframes were configured in.
C23_BaseFirstThenAscending ==
    \A i, j \in 1..Len(sim.log) :
        (i < j /\ sim.log[i].tick = sim.log[j].tick) =>
            \/ TIMEFRAME_MINUTES[sim.log[i].timeframe] < TIMEFRAME_MINUTES[sim.log[j].timeframe]
            \/ /\ sim.log[i].timeframe = sim.log[j].timeframe
               /\ sim.log[i].timeframe = GetBaseTimeframe(sim.timeframes)

\* the timestamps dispatched so far on one timeframe, oldest first
StampsOn(timeframe) ==
    LET entries == SelectSeq(sim.log, LAMBDA e : e.timeframe = timeframe)
    IN [k \in 1..Len(entries) |-> entries[k].timestamp]

HigherTimeframes == {sim.timeframes[i] : i \in 1..Len(sim.timeframes)}
                        \ {GetBaseTimeframe(sim.timeframes)}

\* C24: each completed higher-timeframe candle is dispatched at most once:
\* per timeframe, the timestamps of the dispatched higher-timeframe candles
\* are strictly increasing.
C24_HigherCandlesOnce ==
    \A timeframe \in HigherTimeframes :
        \A i, j \in 1..Len(StampsOn(timeframe)) :
            i < j => StampsOn(timeframe)[i] < StampsOn(timeframe)[j]

\* two 3m candles were dispatched, and a later tick found the second one
\* again without dispatching it
C24_Witness ==
    /\ "3m" \in HigherTimeframes
    /\ Len(StampsOn("3m")) = 2
    /\ sim.tick >= 3
    /\ sim.raised = NoSimRaise
    /\ sim.last_candle["3m"] = StampsOn("3m")[2]
    /\ \A i \in 1..Len(sim.log) : sim.log[i].timeframe = "3m" => sim.log[i].tick < sim.tick

\* C25: ended(symbol) becomes true as soon as a next_candle call leaves the
\* cursor at or after end_time, and it is false in every state in which the
\* cursor is below end_time.
C25_EndedIffCursorAtEnd ==
    [][/\ (sim'.tick = sim.tick + 1 /\ sim'.raised = NoSimRaise
                /\ sim'.current_time >= sim'.end_time) => sim'.ended
       /\ sim'.current_time < sim'.end_time => ~sim'.ended]_vars

---------------------------------------------------------------------------
(* Part E: properties *)

\* C26: when a listener raises while a candle, trade, order or position
\* event is being dispatched, the remaining listeners of that event are still
\* invoked and the failure does not propagate to the dispatching component.
C26_ListenerFailureIsolated ==
    dispatcher.last.event # "none" =>
        /\ ~dispatcher.last.propagated
        /\ \A i \in 1..Len(dispatcher.listeners[dispatcher.last.event]) :
               \E k \in 1..Len(dispatcher.last.invoked) : dispatcher.last.invoked[k] = i

---------------------------------------------------------------------------
(* Part D: properties *)

\* C27: for every evaluation result, passed is true exactly when every KPI
\* compliance flag is true, and the recommendation is promote exactly when
\* passed is true.
C27_PassedIffAllCompliant ==
    evaluator.call = "evaluate" =>
        /\ evaluator.evaluation_passed <=>
               (\A k \in DOMAIN evaluator.kpi_compliance : evaluator.kpi_compliance[k])
        /\ (evaluator.recommendation = "promote") <=> evaluator.evaluation_passed

\* an evaluation that fails one of three KPIs and is not promoted
C27_Witness ==
    /\ evaluator.call = "evaluate"
    /\ evaluator.kpis = KpiNames
    /\ evaluator.kpi_compliance["sharpe_ratio"]
    /\ evaluator.kpi_compliance["max_drawdown"]
    /\ ~evaluator.kpi_compliance["profit_factor"]
    /\ ~evaluator.evaluation_passed
    /\ evaluator.recommendation = "optimize"

\* the KPIs an evaluation failed
FailingKpis == {k \in evaluator.kpis : ~evaluator.kpi_compliance[k]}

\* a failed evaluation whose KPI metrics are all present and none of whose
\* failing metrics is a critical failure
FailedWithoutCritical ==
    /\ evaluator.call = "evaluate"
    /\ ~evaluator.evaluation_passed
    /\ \A k \in evaluator.kpis : evaluator.metrics[k] # NoMetric
    /\ \A k \in FailingKpis : ~CriticalFailure(k, evaluator.metrics[k], DEFAULT_KPIS[k])

\* C28: for a non-passing evaluation without critical failure, the
\* recommendation is optimize exactly when every failing metric is within 20%
\* of its threshold; when some failing metric is further away it is reject.
C28_OptimizeIffAllClose ==
    FailedWithoutCritical =>
        IF \A k \in FailingKpis : CloseToThreshold(k, evaluator.metrics[k], DEFAULT_KPIS[k])
        THEN evaluator.recommendation = "optimize"
        ELSE evaluator.recommendation = "reject"

\* C29: whatever the LLM suggests and whatever the declared parameter space,
\* an rsi_limits value present in the optimizer's validated output is a list
\* of exactly three values in [0,100] in strictly ascending order.
C29_ValidatedRsiLimits ==
    (optimizer.call = "optimize" /\ optimizer.method = "llm"
         /\ optimizer.rsi_limits.kind # "absent") =>
        /\ optimizer.rsi_limits.kind = "list"
        /\ Len(optimizer.rsi_limits.list) = 3
        /\ \A i \in 1..Len(optimizer.rsi_limits.list) :
               0 <= optimizer.rsi_limits.list[i] /\ optimizer.rsi_limits.list[i] <= 100
        /\ \A i, j \in 1..Len(optimizer.rsi_limits.list) :
               i < j => optimizer.rsi_limits.list[i] < optimizer.rsi_limits.list[j]

\* C30: if the LLM is not configured or any step of the LLM path raises,
\* optimize returns the deterministic fallback result (confidence 0.4,
\* metadata method fallback_deterministic) instead of raising.
C30_FallbackInsteadOfRaising ==
    (optimizer.call = "optimize" /\ optimizer.input.llm # "responds") =>
        /\ ~optimizer.raised
        /\ optimizer.method = "fallback_deterministic"
        /\ optimizer.confidence = 40

---------------------------------------------------------------------------
(* Part F: properties *)

\* C31: whenever a payload of some result type is stored for a run_id, the
\* index lists the run_id with that result type and retrieve_by_run_id
\* returns the stored payload.
C31_StoredIsIndexedAndRetrievable ==
    \A t \in ResultTypes, r \in RegistryRunIds :
        registry.files[t][r] # NoPayload =>
            /\ registry.runs[r].listed
            /\ InSeq(t, registry.runs[r].result_types)
            /\ RetrieveByRunId(registry, r).found
            /\ RetrieveByRunId(registry, r).results[t] = registry.files[t][r]

---------------------------------------------------------------------------
(* Part G: properties *)

\* the amount of a position after the first n trades of the exchange
RECURSIVE AmountAfter(_, _)
AmountAfter(position_side, n) ==
    IF n = 0 THEN 0
    ELSE AmountAfter(position_side, n - 1)
           + (IF xch.trades[n].position_side # position_side THEN 0
              ELSE IF xch.trades[n].side = "buy" THEN xch.trades[n].quantity
              ELSE -xch.trades[n].quantity)

BothFlatAfter(n) == AmountAfter("long", n) = 0 /\ AmountAfter("short", n) = 0

\* the trades that return both positions to flat
FlatteningTrades == {n \in 1..Len(xch.trades) : BothFlatAfter(n)}

\* C32: every flat-to-flat interval that contains an opening trade yields
\* exactly one cycle, opened by the trade that opens the first position and
\* completed and dispatched at the trade that returns both positions to flat.
C32_OneCyclePerFlatInterval ==
    /\ Len(strategy.cycles) = Cardinality(FlatteningTrades)
    /\ \A i \in 1..Len(strategy.cycles) :
          /\ strategy.cycles[i].closed_by \in FlatteningTrades
          /\ BothFlatAfter(strategy.cycles[i].opened_by - 1)

RECURSIVE SumRealizedPnl(_, _)
SumRealizedPnl(from, to) ==
    IF from > to THEN Dec(0)
    ELSE RAdd(xch.trades[from].realized_pnl, SumRealizedPnl(from + 1, to))

\* the trade that closes the flat-to-flat interval opened by trade n
ClosingTrade(n) ==
    IF \E m \in FlatteningTrades : m >= n
    THEN CHOOSE m \in FlatteningTrades : m >= n /\ \A k \in FlatteningTrades : k >= n => m <= k
    ELSE Len(xch.trades)

\* C33: the total_pnl of every dispatched cycle is the sum of realized_pnl of
\* the trades from the cycle's opening trade to its closing trade, and of no
\* other trade.
C33_TotalPnlIsIntraCycleSum ==
    \A i \in 1..Len(strategy.cycles) :
        strategy.cycles[i].total_pnl =
            SumRealizedPnl(strategy.cycles[i].opened_by,
                           ClosingTrade(strategy.cycles[i].opened_by))

---------------------------------------------------------------------------
(* Part B: properties, continued *)

\* the trades dispatched to on_trade by the latest operation
DispatchedTrades ==
    {t \in {xch.trades[i] : i \in 1..Len(xch.trades)} :
        \E k \in 1..Len(xch.dispatched) :
            xch.dispatched[k].kind = "trade" /\ xch.dispatched[k].id = t.order_id}

\* C34: when a trade fills on one side and the strategy's on_trade handler
\* has returned, no resting order of the opposite side remains on the
\* exchange.
C34_OppositeOrdersCancelled ==
    xch.trade_listener = "strategy" =>
        \A t \in DispatchedTrades :
            \A i \in 1..Len(xch.orders) :
                xch.orders[i].position_side = t.position_side

Reversed(seq) == [i \in 1..Len(seq) |-> seq[Len(seq) + 1 - i]]

\* C35: after close(), the child agents have been closed in the reverse of the
\* order in which initialize() created them.
C35_ClosedInReverseCreationOrder ==
    children.closed # <<>> => children.closed = Reversed(children.created)

\* C36: when a logging_context block is left, by return or by an exception,
\* the context that get_context() reports is the one it reported when the
\* block was entered, at every depth of nesting.
C36_ContextRestoredOnExit ==
    [][context.frames # <<>> /\ Len(context'.frames) = Len(context.frames) - 1
          => GetContext(context') = context.frames[Len(context.frames)].entered]_vars

\* an inner block was left through an exception while an outer block stays open
C36_Witness ==
    /\ context.left = "exception"
    /\ Len(context.frames) = 1
    /\ context.agent = "orchestrator"
    /\ context.frames[1].old_agent = "simulator"

\* C37: a scheduler that drives its own orchestrator, whose backtests all
\* complete and whose evaluations all pass, eventually promotes the strategy
\* to production.
C37_OwnOrchestratorEventuallyPromotes ==
    orchestrator = "own" => <>(cycle.phase = "promoted")

\* the base candles dispatched for a symbol, in the order of their dispatch
BaseDispatches(symbol) ==
    SelectSeq(multi.per[symbol].log, LAMBDA e : e.timeframe = "1m")

\* C38: with two or more symbols subscribed, the base candles dispatched for
\* each symbol are that symbol's candles in timestamp order without a gap:
\* each one is the candle one base interval after the one dispatched before.
C38_NoSymbolCandleSkipped ==
    Len(multi.symbols) >= 2 =>
        \A symbol \in MultiSymbols :
            \A i \in 1..(Len(BaseDispatches(symbol)) - 1) :
                BaseDispatches(symbol)[i + 1].timestamp =
                    BaseDispatches(symbol)[i].timestamp + TimeframeMs("1m")

\* the combined position notional at the current base close
PositionsNotional(x) ==
    (Abs(x.positions.long.amount) + Abs(x.positions.short.amount)) * x.candle.close

\* the trades the step has added
NewTrades == {xch'.trades[i] : i \in (Len(xch.trades) + 1)..Len(xch'.trades)}

\* C39: a step that starts with the combined position notional at or below
\* max_notional, keeps the base close and fills opening orders only (the
\* limit orders that were resting) leaves it at or below max_notional.
C39_FillsKeepNotionalCap ==
    [][(/\ xch.ready
        /\ PositionsNotional(xch) <= xch.max_notional
        /\ xch'.candle.close = xch.candle.close
        /\ NewTrades # {}
        /\ \A t \in NewTrades : IsOpening(t))
          => PositionsNotional(xch') <= xch'.max_notional]_vars

\* three integers in [0, 100], each smaller than the next
AscendingTriple(list) ==
    /\ Len(list) = 3
    /\ \A i \in 1..3 : list[i] >= 0 /\ list[i] <= 100
    /\ list[1] < list[2] /\ list[2] < list[3]

\* C40: when the base configuration's rsi_limits is a strictly ascending
\* triple in [0, 100], the rsi_limits the deterministic fallback returns is
\* one too.
C40_FallbackKeepsRsiLimitsAscending ==
    (/\ optimizer.call = "optimize"
     /\ ~optimizer.raised
     /\ optimizer.method = "fallback_deterministic"
     /\ optimizer.input.backtest_config.kind = "list"
     /\ AscendingTriple(optimizer.input.backtest_config.list)
     /\ optimizer.rsi_limits.kind = "list")
        => AscendingTriple(optimizer.rsi_limits.list)

=============================================================================
